---- MODULE Spec2Model ----
(***************************************************************************)
(* Model of the ORFS marketing-field validator,                            *)
(* tools/validator.py :: validate_marketing_fields.                        *)
(*                                                                         *)
(* A Python string is a sequence of one-character strings.  A JSON value   *)
(* is a record [t, v] tagged with its Python type: "str", "int", "list",   *)
(* "dict", "null".  A dict is the sequence of its <<key, value>> pairs in  *)
(* insertion order (json.load keeps the order of the file).                *)
(*                                                                         *)
(* The entities and sections the code indexes with a key (restaurant,      *)
(* marketing_extension, loyalty_program, offer, social_media_strategy,     *)
(* website_cta, dish, supplier_location, bundle) are objects in the feeds  *)
(* of the model; on a number or null the code raises TypeError or          *)
(* AttributeError there.  Numbers are integers.                            *)
(***************************************************************************)
EXTENDS Integers, Sequences, FiniteSets, TLC

(***************************************************************************)
(* Bounds of the model.                                                    *)
(***************************************************************************)
\* the number of restaurants, dishes and bundles of a feed, taken together
MaxEntities == 2

(***************************************************************************)
(* Python strings.                                                         *)
(***************************************************************************)
Whitespace == {" ", "\n", "\t"}

RECURSIVE Runs(_, _, _, _)
\* the maximal runs of s[lo..hi] free of the characters of seps, in order
\* (computed by halving, the two runs that meet in the middle are joined)
Runs(s, seps, lo, hi) ==
    IF lo > hi THEN <<>>
    ELSE IF lo = hi THEN (IF s[lo] \in seps THEN <<>> ELSE << <<s[lo]>> >>)
    ELSE LET mid == (lo + hi) \div 2
             left == Runs(s, seps, lo, mid)
             right == Runs(s, seps, mid + 1, hi)
         IN IF s[mid] \notin seps /\ s[mid + 1] \notin seps
            THEN SubSeq(left, 1, Len(left) - 1)
                 \o <<left[Len(left)] \o right[1]>> \o Tail(right)
            ELSE left \o right

\* str.split() without arguments: the maximal runs of non-whitespace
Split(s) == Runs(s, Whitespace, 1, Len(s))

\* str.startswith(p)
StartsWith(s, p) == Len(s) >= Len(p) /\ SubSeq(s, 1, Len(p)) = p

\* sub in s
Contains(s, sub) ==
    \E i \in 1..(Len(s) - Len(sub) + 1) : SubSeq(s, i, i + Len(sub) - 1) = sub

UpperCase == <<"A","B","C","D","E","F","G","H","I","J","K","L","M",
               "N","O","P","Q","R","S","T","U","V","W","X","Y","Z">>
LowerCase == <<"a","b","c","d","e","f","g","h","i","j","k","l","m",
               "n","o","p","q","r","s","t","u","v","w","x","y","z">>

\* the lower-case letter of each upper-case letter
LowerOf ==
    ("A" :> "a") @@ ("B" :> "b") @@ ("C" :> "c") @@ ("D" :> "d") @@ ("E" :> "e")
    @@ ("F" :> "f") @@ ("G" :> "g") @@ ("H" :> "h") @@ ("I" :> "i") @@ ("J" :> "j")
    @@ ("K" :> "k") @@ ("L" :> "l") @@ ("M" :> "m") @@ ("N" :> "n") @@ ("O" :> "o")
    @@ ("P" :> "p") @@ ("Q" :> "q") @@ ("R" :> "r") @@ ("S" :> "s") @@ ("T" :> "t")
    @@ ("U" :> "u") @@ ("V" :> "v") @@ ("W" :> "w") @@ ("X" :> "x") @@ ("Y" :> "y")
    @@ ("Z" :> "z")

LowerChar(c) == IF c \in DOMAIN LowerOf THEN LowerOf[c] ELSE c

\* str.lower()
Lower(s) == [i \in 1..Len(s) |-> LowerChar(s[i])]

IsLowerLetter(c) == \E k \in 1..26 : LowerCase[k] = c

\* string.punctuation (without the backquote, which no text of the model holds)
Punctuation == {"!", "\"", "#", "$", "%", "&", "'", "(", ")", "*", "+", ",",
                "-", ".", "/", ":", ";", "<", "=", ">", "?", "@", "[", "\\",
                "]", "^", "_", "{", "|", "}", "~"}

RECURSIVE LStrip(_, _)
LStrip(s, cs) == IF s # <<>> /\ Head(s) \in cs THEN LStrip(Tail(s), cs) ELSE s

RECURSIVE RStrip(_, _)
RStrip(s, cs) ==
    IF s # <<>> /\ s[Len(s)] \in cs THEN RStrip(SubSeq(s, 1, Len(s) - 1), cs) ELSE s

\* str.strip(chars)
Strip(s, cs) == RStrip(LStrip(s, cs), cs)

DigitChar == <<"0","1","2","3","4","5","6","7","8","9">>

RECURSIVE IntToStr(_)
\* str(n), as the f-strings format an integer
IntToStr(n) ==
    IF n < 0 THEN <<"-">> \o IntToStr(0 - n)
    ELSE IF n < 10 THEN <<DigitChar[n + 1]>>
    ELSE IntToStr(n \div 10) \o <<DigitChar[(n % 10) + 1]>>

RECURSIVE SumLenRange(_, _, _)
SumLenRange(ws, lo, hi) ==
    IF lo > hi THEN 0
    ELSE IF lo = hi THEN Len(ws[lo])
    ELSE SumLenRange(ws, lo, (lo + hi) \div 2)
         + SumLenRange(ws, ((lo + hi) \div 2) + 1, hi)

\* sum(len(word) for word in words)
SumLen(ws) == SumLenRange(ws, 1, Len(ws))

RECURSIVE Concat(_)
Concat(ss) == IF ss = <<>> THEN <<>> ELSE Head(ss) \o Concat(Tail(ss))

(***************************************************************************)
(* JSON values as json.load builds them.                                   *)
(***************************************************************************)
Str(s) == [t |-> "str", v |-> s]
Num(n) == [t |-> "int", v |-> n]
List(xs) == [t |-> "list", v |-> xs]
Dict(kvs) == [t |-> "dict", v |-> kvs]
Null == [t |-> "null", v |-> 0]

IsStr(x) == x.t = "str"
IsList(x) == x.t = "list"
IsDict(x) == x.t = "dict"
\* isinstance(x, (int, float)); the feeds of the model carry integers only
IsNumber(x) == x.t = "int"

\* bool(x)
Truthy(x) ==
    CASE x.t = "str" -> x.v # <<>>
      [] x.t = "int" -> x.v # 0
      [] x.t = "list" -> x.v # <<>>
      [] x.t = "dict" -> x.v # <<>>
      [] OTHER -> FALSE

\* key in d, for a dict d
Has(d, k) == \E i \in 1..Len(d.v) : d.v[i][1] = k

\* d[key], for a dict d that has the key
Get(d, k) == d.v[CHOOSE i \in 1..Len(d.v) : d.v[i][1] = k][2]

\* d.get(key, default)
GetOr(d, k, default) == IF Has(d, k) THEN Get(d, k) ELSE default

\* the text an f-string puts in a message for a value
Format(x) == IF x.t = "int" THEN IntToStr(x.v) ELSE x.v

(***************************************************************************)
(* The outcome of evaluating a block of rules: the issues it appended, in  *)
(* order, and whether it raised an exception.  validate_marketing_fields   *)
(* has no try/except: an exception raised by a rule leaves the function.   *)
(***************************************************************************)
Ok(iss) == [iss |-> iss, exc |-> FALSE]
Raise == [iss |-> <<>>, exc |-> TRUE]

\* b runs after a, unless a raised
Then(a, b) == IF a.exc THEN a ELSE [iss |-> a.iss \o b.iss, exc |-> b.exc]

RECURSIVE Chain(_)
\* the blocks of rs run one after the other
Chain(rs) == IF rs = <<>> THEN Ok(<<>>) ELSE Then(Head(rs), Chain(Tail(rs)))

(***************************************************************************)
(* An issue is the message the code appends to validation_issues, kept as  *)
(* the parts its f-string is built from: rule names the message text, id   *)
(* the identifier it quotes, field the field name, pos the list index,     *)
(* num the number and items the texts it quotes.  ent and idx record the   *)
(* loop ("restaurant", "dish", "bundle", "seo") and the 1-based iteration  *)
(* that appended it.                                                       *)
(***************************************************************************)
Issue(rule, ent, idx, id, field, pos, num, items) ==
    [rule |-> rule, ent |-> ent, idx |-> idx, id |-> id, field |-> field,
     pos |-> pos, num |-> num, items |-> items]

NoPos == -1

(***************************************************************************)
(* Restaurant rules, validator.py lines 152-260.                           *)
(***************************************************************************)
\* restaurant.get("id", f"restaurant-{i}") with the 0-based index i
RestaurantId(restaurant, i) ==
    IF Has(restaurant, "id") THEN Format(Get(restaurant, "id"))
    ELSE <<"r","e","s","t","a","u","r","a","n","t","-">> \o IntToStr(i)

\* lines 163-170: one key message point, point.split() raises on a non-string
KeyMessagePoint(point, j, rid, n) ==
    IF ~IsStr(point) THEN Raise
    ELSE LET words == Split(point.v) IN
         IF Len(words) < 3
         THEN Ok(<<Issue("key_message_point_too_short", "restaurant", n, rid,
                         "key_message_points", j, Len(words), <<>>)>>)
         ELSE IF Len(words) > 10
         THEN Ok(<<Issue("key_message_point_too_long", "restaurant", n, rid,
                         "key_message_points", j, Len(words), <<>>)>>)
         ELSE Ok(<<>>)

\* lines 156-170
KeyMessagePoints(restaurant, rid, n, content_quality) ==
    IF ~Has(restaurant, "key_message_points") THEN Ok(<<>>)
    ELSE LET points == Get(restaurant, "key_message_points") IN
         IF ~Truthy(points) \/ ~IsList(points)
         THEN Ok(<<Issue("key_message_points_invalid", "restaurant", n, rid,
                         "key_message_points", NoPos, 0, <<>>)>>)
         ELSE IF content_quality
         THEN Chain([j \in 1..Len(points.v) |->
                        KeyMessagePoint(points.v[j], j - 1, rid, n)])
         ELSE Ok(<<>>)

\* line 179: variables = ["restaurant_name", "key_message_points", "length"]
TemplateVariables ==
    << <<"r","e","s","t","a","u","r","a","n","t","_","n","a","m","e">>,
       <<"k","e","y","_","m","e","s","s","a","g","e","_","p","o","i","n","t","s">>,
       <<"l","e","n","g","t","h">> >>

\* the placeholder rule, were it to look for the name without its braces
PlaceholderBare(template, var, rid, n) ==
    IF ~Contains(template, var)
    THEN Ok(<<Issue("prompt_template_missing_placeholder", "restaurant", n, rid,
                    "suggested_prompt_template", NoPos, 0, <<var>>)>>)
    ELSE Ok(<<>>)

\* lines 180-183: one required placeholder, '{' + var + '}' not in template
Placeholder(template, var, rid, n) ==
    IF ~Contains(template, <<"{">> \o var \o <<"}">>)
    THEN Ok(<<Issue("prompt_template_missing_placeholder", "restaurant", n, rid,
                    "suggested_prompt_template", NoPos, 0, <<var>>)>>)
    ELSE Ok(<<>>)

\* lines 173-183
PromptTemplate(restaurant, rid, n) ==
    IF ~Has(restaurant, "suggested_prompt_template") THEN Ok(<<>>)
    ELSE LET template == Get(restaurant, "suggested_prompt_template") IN
         IF ~Truthy(template) \/ ~IsStr(template)
         THEN Ok(<<Issue("prompt_template_invalid", "restaurant", n, rid,
                         "suggested_prompt_template", NoPos, 0, <<>>)>>)
         ELSE Chain([k \in 1..Len(TemplateVariables) |->
                        Placeholder(template.v, TemplateVariables[k], rid, n)])

\* lines 192-194
LoyaltyTiers(program, rid, n) ==
    IF Has(program, "tiers")
       /\ (~Truthy(Get(program, "tiers")) \/ ~IsList(Get(program, "tiers")))
    THEN Ok(<<Issue("loyalty_tiers_invalid", "restaurant", n, rid,
                    "tiers", NoPos, 0, <<>>)>>)
    ELSE Ok(<<>>)

\* lines 197-201: blurb.split() raises on a non-string
PromoBlurb(program, rid, n, content_quality) ==
    IF content_quality /\ Has(program, "promo_blurb")
    THEN LET blurb == Get(program, "promo_blurb") IN
         IF ~IsStr(blurb) THEN Raise
         ELSE IF Len(Split(blurb.v)) < 5
         THEN Ok(<<Issue("promo_blurb_too_short", "restaurant", n, rid,
                         "promo_blurb", NoPos, 0, <<>>)>>)
         ELSE Ok(<<>>)
    ELSE Ok(<<>>)

\* lines 190-201: "loyalty_program" in marketing
LoyaltyProgram(marketing, rid, n, content_quality) ==
    IF ~Has(marketing, "loyalty_program") THEN Ok(<<>>)
    ELSE LET program == Get(marketing, "loyalty_program") IN
         IF ~IsDict(program) THEN Raise
         ELSE Then(LoyaltyTiers(program, rid, n),
                   PromoBlurb(program, rid, n, content_quality))

\* a > b between two JSON values is defined for two numbers (the only
\* comparable pair the feeds of the model hold); a number against a string
\* or null raises TypeError
Comparable(a, b) == IsNumber(a) /\ IsNumber(b)

\* OfferTimes, were equal times rejected
OfferTimesStrict(offer, n) ==
    IF Has(offer, "start_time") /\ Has(offer, "end_time")
    THEN LET st == Get(offer, "start_time")
             en == Get(offer, "end_time") IN
         IF ~Comparable(st, en) THEN Raise
         ELSE IF st.v >= en.v
         THEN Ok(<<Issue("offer_end_before_start", "restaurant", n,
                         Format(GetOr(offer, "offer_name",
                                      Str(<<"u","n","n","a","m","e","d">>))),
                         "promotional_offers", NoPos, 0, <<>>)>>)
         ELSE Ok(<<>>)
    ELSE Ok(<<>>)

\* lines 212-215: offer["start_time"] > offer["end_time"]
OfferTimes(offer, n) ==
    IF Has(offer, "start_time") /\ Has(offer, "end_time")
    THEN LET st == Get(offer, "start_time")
             en == Get(offer, "end_time") IN
         IF ~Comparable(st, en) THEN Raise
         ELSE IF st.v > en.v
         THEN Ok(<<Issue("offer_end_before_start", "restaurant", n,
                         Format(GetOr(offer, "offer_name",
                                      Str(<<"u","n","n","a","m","e","d">>))),
                         "promotional_offers", NoPos, 0, <<>>)>>)
         ELSE Ok(<<>>)
    ELSE Ok(<<>>)

\* lines 218-225: copy.split() raises on a non-string
OfferCopy(offer, j, rid, n, content_quality) ==
    IF content_quality /\ Has(offer, "marketing_copy")
    THEN LET copy == Get(offer, "marketing_copy") IN
         IF ~IsStr(copy) THEN Raise
         ELSE Then(
             IF Len(Split(copy.v)) < 5
             THEN Ok(<<Issue("offer_copy_too_short", "restaurant", n, rid,
                             "marketing_copy", j, 0, <<>>)>>)
             ELSE Ok(<<>>),
             IF ~(Contains(copy.v, <<"!">>) \/ Contains(copy.v, <<"?">>))
             THEN Ok(<<Issue("offer_copy_not_engaging", "restaurant", n, rid,
                             "marketing_copy", j, 0, <<>>)>>)
             ELSE Ok(<<>>))
    ELSE Ok(<<>>)

\* lines 204-225
PromotionalOffers(marketing, rid, n, content_quality) ==
    IF ~Has(marketing, "promotional_offers") THEN Ok(<<>>)
    ELSE LET offers == Get(marketing, "promotional_offers") IN
         IF ~IsList(offers)
         THEN Ok(<<Issue("promotional_offers_not_list", "restaurant", n, rid,
                         "promotional_offers", NoPos, 0, <<>>)>>)
         ELSE Chain([j \in 1..Len(offers.v) |->
                        IF ~IsDict(offers.v[j]) THEN Raise
                        ELSE Then(OfferTimes(offers.v[j], n),
                                  OfferCopy(offers.v[j], j - 1, rid, n,
                                            content_quality))])

SocialRequired == <<"platforms", "hashtags">>

\* lines 232-235
SocialRequiredField(social, field, rid, n) ==
    IF ~Has(social, field) \/ ~IsList(Get(social, field))
       \/ ~Truthy(Get(social, field))
    THEN Ok(<<Issue("social_missing_list", "restaurant", n, rid,
                    field, NoPos, 0, <<>>)>>)
    ELSE Ok(<<>>)

\* lines 247-250: hashtag.startswith("#") raises on a non-string
Hashtag(hashtag, rid, n) ==
    IF ~IsStr(hashtag) THEN Raise
    ELSE IF ~StartsWith(hashtag.v, <<"#">>)
    THEN Ok(<<Issue("hashtag_format", "restaurant", n, rid,
                    "hashtags", NoPos, 0, <<hashtag.v>>)>>)
    ELSE Ok(<<>>)

\* lines 246-250: hashtags is a list in the feeds of the model; iterating
\* a number or null raises
Hashtags(social, rid, n) ==
    IF ~Has(social, "hashtags") THEN Ok(<<>>)
    ELSE LET tags == Get(social, "hashtags") IN
         IF ~IsList(tags) THEN Raise
         ELSE Chain([k \in 1..Len(tags.v) |-> Hashtag(tags.v[k], rid, n)])

\* lines 238-250: the hashtag loop is nested in the social_media_blurb block
SocialBlurb(social, rid, n, content_quality) ==
    IF content_quality /\ Has(social, "social_media_blurb")
    THEN LET blurb == Get(social, "social_media_blurb") IN
         IF ~IsStr(blurb) THEN Raise
         ELSE Then(
             IF Len(Split(blurb.v)) < 10
             THEN Ok(<<Issue("social_media_blurb_too_short", "restaurant", n, rid,
                             "social_media_blurb", NoPos, Len(Split(blurb.v)), <<>>)>>)
             ELSE Ok(<<>>),
             Hashtags(social, rid, n))
    ELSE Ok(<<>>)

\* lines 228-250
SocialMediaStrategy(marketing, rid, n, content_quality) ==
    IF ~Has(marketing, "social_media_strategy") THEN Ok(<<>>)
    ELSE LET social == Get(marketing, "social_media_strategy") IN
         IF ~IsDict(social) THEN Raise
         ELSE Then(Chain([k \in 1..Len(SocialRequired) |->
                             SocialRequiredField(social, SocialRequired[k], rid, n)]),
                   SocialBlurb(social, rid, n, content_quality))

\* lines 253-260: len() of a number and startswith on a non-string raise
WebsiteCta(marketing, rid, n) ==
    IF ~Has(marketing, "website_cta") THEN Ok(<<>>)
    ELSE LET cta == Get(marketing, "website_cta") IN
         IF ~IsDict(cta) THEN Raise
         ELSE Then(
             IF ~Has(cta, "button_text") THEN Ok(<<>>)
             ELSE IF ~(IsStr(Get(cta, "button_text")) \/ IsList(Get(cta, "button_text"))
                       \/ IsDict(Get(cta, "button_text")))
             THEN Raise
             ELSE IF Len(Get(cta, "button_text").v) < 2
             THEN Ok(<<Issue("cta_button_text_too_short", "restaurant", n, rid,
                             "button_text", NoPos, 0, <<>>)>>)
             ELSE Ok(<<>>),
             IF ~Has(cta, "target_url") THEN Ok(<<>>)
             ELSE IF ~IsStr(Get(cta, "target_url")) THEN Raise
             ELSE IF ~StartsWith(Get(cta, "target_url").v, <<"h","t","t","p">>)
             THEN Ok(<<Issue("cta_target_url_scheme", "restaurant", n, rid,
                             "target_url", NoPos, 0, <<>>)>>)
             ELSE Ok(<<>>))

\* lines 186-260
MarketingExtension(restaurant, rid, n, content_quality) ==
    IF ~Has(restaurant, "marketing_extension") THEN Ok(<<>>)
    ELSE LET marketing == Get(restaurant, "marketing_extension") IN
         IF ~IsDict(marketing) THEN Raise
         ELSE Chain(<<LoyaltyProgram(marketing, rid, n, content_quality),
                      PromotionalOffers(marketing, rid, n, content_quality),
                      SocialMediaStrategy(marketing, rid, n, content_quality),
                      WebsiteCta(marketing, rid, n)>>)

\* lines 152-260: the body of the restaurant loop for the n-th restaurant
CheckRestaurant(restaurant, n, content_quality) ==
    IF ~IsDict(restaurant) THEN Raise
    ELSE LET rid == RestaurantId(restaurant, n - 1) IN
         Chain(<<KeyMessagePoints(restaurant, rid, n, content_quality),
                 PromptTemplate(restaurant, rid, n),
                 MarketingExtension(restaurant, rid, n, content_quality)>>)

(***************************************************************************)
(* Dish rules, validator.py lines 264-425.                                 *)
(***************************************************************************)
\* The characters of a dict key that the code reads as text: the language
\* codes of the translations and the address fields it lists in a message.
KeyText(k) ==
    CASE k = "en" -> <<"e","n">>
      [] k = "fr" -> <<"f","r">>
      [] k = "de" -> <<"d","e">>
      [] k = "es" -> <<"e","s">>
      [] k = "it" -> <<"i","t">>
      [] k = "pt" -> <<"p","t">>
      [] k = "EN" -> <<"E","N">>
      [] k = "eng" -> <<"e","n","g">>
      [] k = "street_address" -> <<"s","t","r","e","e","t","_","a","d","d","r","e","s","s">>
      [] k = "locality" -> <<"l","o","c","a","l","i","t","y">>
      [] k = "state" -> <<"s","t","a","t","e">>
      [] k = "country" -> <<"c","o","u","n","t","r","y">>

\* line 269
NarrativeFields == <<"chef_story", "chef_highlight", "chef_anecdote",
                     "culinary_philosophy", "seasonal_story", "cultural_context",
                     "ingredient_story">>

\* line 286: re.match(r'^[a-z]{2}$', lang_code); $ also matches before a
\* final newline
LangCodeOk(code) ==
    /\ Len(code) \in {2, 3}
    /\ IsLowerLetter(code[1]) /\ IsLowerLetter(code[2])
    /\ Len(code) = 3 => code[3] = "\n"

\* WordCountBound, were the two bounds of chef_highlight exclusive
WordCountBoundExclusive(field, words, did, n) ==
    IF field = "chef_highlight" /\ Len(words) >= 50
    THEN <<Issue("narrative_too_long", "dish", n, did, field, NoPos, Len(words), <<>>)>>
    ELSE IF field = "chef_highlight" /\ Len(words) <= 10
    THEN <<Issue("narrative_too_short", "dish", n, did, field, NoPos, Len(words), <<>>)>>
    ELSE IF field \in {"chef_story", "seasonal_story", "cultural_context"}
            /\ Len(words) < 30
    THEN <<Issue("narrative_too_short", "dish", n, did, field, NoPos, Len(words), <<>>)>>
    ELSE <<>>

\* lines 294-302: the word-count bound of the field
WordCountBound(field, words, did, n) ==
    IF field = "chef_highlight" /\ Len(words) > 50
    THEN <<Issue("narrative_too_long", "dish", n, did, field, NoPos, Len(words), <<>>)>>
    ELSE IF field = "chef_highlight" /\ Len(words) < 10
    THEN <<Issue("narrative_too_short", "dish", n, did, field, NoPos, Len(words), <<>>)>>
    ELSE IF field \in {"chef_story", "seasonal_story", "cultural_context"}
            /\ Len(words) < 30
    THEN <<Issue("narrative_too_short", "dish", n, did, field, NoPos, Len(words), <<>>)>>
    ELSE <<>>

\* lines 305-307
TerminalPunctuation(field, content, did, n) ==
    IF Len(content) > 0 /\ content[Len(content)] \notin {".", "!", "?"}
    THEN <<Issue("narrative_punctuation", "dish", n, did, field, NoPos, 0, <<>>)>>
    ELSE <<>>

\* the dish-name rule, were the name looked for as it is written
DishNameMentionExact(field, content, words, dish_name, did, n) ==
    IF Len(words) > 20 /\ ~Contains(content, dish_name)
    THEN <<Issue("narrative_dish_name", "dish", n, did, field, NoPos, 0, <<dish_name>>)>>
    ELSE <<>>

\* lines 310-312
DishNameMention(field, content, words, dish_name, did, n) ==
    IF Len(words) > 20 /\ ~Contains(Lower(content), Lower(dish_name))
    \* (the two conditions of line 310, the cheaper one first)
    THEN <<Issue("narrative_dish_name", "dish", n, did, field, NoPos, 0, <<dish_name>>)>>
    ELSE <<>>

\* lines 323-324: re.split(r'[.!?]+', content), each piece stripped, the
\* empty ones dropped
Sentences(content) ==
    LET pieces == Runs(content, {".", "!", "?"}, 1, Len(content))
        stripped == [k \in 1..Len(pieces) |-> Strip(pieces[k], Whitespace)]
        NonEmpty(x) == x # <<>>
    IN SelectSeq(stripped, NonEmpty)

\* the text-quality metrics, were the sentence variety checked for a text of
\* any length
TextQualityAnyLength(field, content, words, did, n) ==
    (IF Len(words) > 15 /\ SumLen(words) > 8 * Len(words)
     THEN <<Issue("narrative_word_length", "dish", n, did, field, NoPos,
                  SumLen(words), <<>>)>>
     ELSE <<>>)
    \o
    (LET sentences == Sentences(content)
         sent_lengths == [k \in 1..Len(sentences) |-> Len(Split(sentences[k]))]
     IN IF Len(sentences) > 1
           /\ \A a, b \in 1..Len(sentences) : sent_lengths[a] = sent_lengths[b]
        THEN <<Issue("narrative_uniform_sentences", "dish", n, did, field,
                     NoPos, 0, <<>>)>>
        ELSE <<>>)

\* lines 315-329; num is the sum the average is computed from
TextQuality(field, content, words, did, n) ==
    IF Len(words) > 15
    THEN (IF SumLen(words) > 8 * Len(words)
          THEN <<Issue("narrative_word_length", "dish", n, did, field, NoPos,
                       SumLen(words), <<>>)>>
          ELSE <<>>)
         \o
         (LET sentences == Sentences(content)
              sent_lengths == [k \in 1..Len(sentences) |-> Len(Split(sentences[k]))]
          IN IF Len(sentences) > 1
                /\ \A a, b \in 1..Len(sentences) : sent_lengths[a] = sent_lengths[b]
             THEN <<Issue("narrative_uniform_sentences", "dish", n, did, field,
                          NoPos, 0, <<>>)>>
             ELSE <<>>)
    ELSE <<>>

\* lines 291-329: content.split() and dish_name.lower() raise on a non-string
ContentQuality(field, content, dish_name, did, n) ==
    IF ~IsStr(content) \/ ~IsStr(dish_name) THEN Raise
    ELSE LET words == Split(content.v) IN
         Ok(WordCountBound(field, words, did, n)
            \o TerminalPunctuation(field, content.v, did, n)
            \o DishNameMention(field, content.v, words, dish_name.v, did, n)
            \o TextQuality(field, content.v, words, did, n))

\* Translation, were the content checks not gated by the flag
TranslationUngated(field, lang_code, content, dish_name, did, n, content_quality) ==
    Then(IF ~LangCodeOk(KeyText(lang_code))
         THEN Ok(<<Issue("narrative_language_code", "dish", n, did, field, NoPos, 0,
                         <<KeyText(lang_code)>>)>>)
         ELSE Ok(<<>>),
         ContentQuality(field, content, dish_name, did, n))

\* lines 284-329: one entry of translations.items()
Translation(field, lang_code, content, dish_name, did, n, content_quality) ==
    Then(IF ~LangCodeOk(KeyText(lang_code))
         THEN Ok(<<Issue("narrative_language_code", "dish", n, did, field, NoPos, 0,
                         <<KeyText(lang_code)>>)>>)
         ELSE Ok(<<>>),
         IF content_quality THEN ContentQuality(field, content, dish_name, did, n)
         ELSE Ok(<<>>))

\* lines 273-329
NarrativeField(dish, field, dish_name, did, n, content_quality) ==
    IF ~Has(dish, field) THEN Ok(<<>>)
    ELSE LET translated == Get(dish, field) IN
         IF ~IsDict(translated) \/ ~Has(translated, "translations")
         THEN Ok(<<Issue("narrative_format", "dish", n, did, field, NoPos, 0, <<>>)>>)
         ELSE LET translations == Get(translated, "translations") IN
              IF ~Truthy(translations) \/ ~IsDict(translations)
              THEN Ok(<<Issue("narrative_translations_invalid", "dish", n, did, field,
                              NoPos, 0, <<>>)>>)
              ELSE Chain([k \in 1..Len(translations.v) |->
                             Translation(field, translations.v[k][1],
                                         translations.v[k][2], dish_name, did, n,
                                         content_quality)])

\* lines 335-340: comparing a non-number with a number raises
CoordinateRange(location, key, bound, did, n) ==
    IF ~Has(location, key) THEN Ok(<<>>)
    ELSE IF ~IsNumber(Get(location, key)) THEN Raise
    ELSE IF Get(location, key).v < 0 - bound \/ Get(location, key).v > bound
    THEN Ok(<<Issue("supplier_coordinate_range", "dish", n, did, key, NoPos,
                    Get(location, key).v, <<>>)>>)
    ELSE Ok(<<>>)

\* line 345
RequiredAddressFields == <<"street_address", "locality", "state", "country">>

\* lines 343-349
SupplierDetailed(location, did, n) ==
    IF ~Has(location, "detailed") THEN Ok(<<>>)
    ELSE LET detailed == Get(location, "detailed") IN
         IF ~IsDict(detailed) THEN Raise
         ELSE LET Missing(f) == ~Has(detailed, f) \/ ~Truthy(Get(detailed, f))
                  missing == SelectSeq(RequiredAddressFields, Missing)
              IN IF missing # <<>>
                 THEN Ok(<<Issue("supplier_detailed_missing", "dish", n, did,
                                 "detailed", NoPos, 0,
                                 [k \in 1..Len(missing) |-> KeyText(missing[k])])>>)
                 ELSE Ok(<<>>)

\* lines 332-349
SupplierLocation(dish, did, n) ==
    IF ~Has(dish, "supplier_location") THEN Ok(<<>>)
    ELSE LET location == Get(dish, "supplier_location") IN
         IF ~IsDict(location) THEN Raise
         ELSE Chain(<<CoordinateRange(location, "latitude", 90, did, n),
                      CoordinateRange(location, "longitude", 180, did, n),
                      SupplierDetailed(location, did, n)>>)

\* lines 351-353: len() of a number or null raises
SupplierCertification(dish, did, n) ==
    IF ~Has(dish, "supplier_certification") THEN Ok(<<>>)
    ELSE LET cert == Get(dish, "supplier_certification") IN
         IF ~(IsStr(cert) \/ IsList(cert) \/ IsDict(cert)) THEN Raise
         ELSE IF Len(cert.v) < 2
         THEN Ok(<<Issue("supplier_certification_too_short", "dish", n, did,
                         "supplier_certification", NoPos, 0, <<>>)>>)
         ELSE Ok(<<>>)

\* lines 355-362
FarmDistance(dish, did, n) ==
    IF ~Has(dish, "farm_distance") THEN Ok(<<>>)
    ELSE LET distance == Get(dish, "farm_distance") IN
         IF ~IsNumber(distance) \/ distance.v <= 0
         THEN Ok(<<Issue("farm_distance_invalid", "dish", n, did, "farm_distance",
                         NoPos, 0,
                         IF IsNumber(distance) \/ IsStr(distance)
                         THEN <<Format(distance)>> ELSE <<>>)>>)
         ELSE IF distance.v > 500
         THEN Ok(<<Issue("farm_distance_large_warning", "dish", n, did,
                         "farm_distance", NoPos, distance.v, <<>>)>>)
         ELSE Ok(<<>>)

\* lines 364-368
SustainabilityImpact(dish, did, n) ==
    IF ~Has(dish, "sustainability_impact") THEN Ok(<<>>)
    ELSE LET impact == Get(dish, "sustainability_impact") IN
         IF ~IsStr(impact) \/ Len(impact.v) < 10
         THEN Ok(<<Issue("sustainability_impact_too_short", "dish", n, did,
                         "sustainability_impact", NoPos, 0, <<>>)>>)
         ELSE Ok(<<>>)

\* one element of upgrade_options, were the checks of an element to stop at
\* its first violation
UpgradeOptionFirstOnly(option, i, did, n) ==
    IF ~IsDict(option)
    THEN <<Issue("upgrade_option_not_object", "dish", n, did, "upgrade_options",
                 i, 0, <<>>)>>
    ELSE IF ~Has(option, "new_name") \/ ~Truthy(Get(option, "new_name"))
    THEN <<Issue("upgrade_option_missing_new_name", "dish", n, did,
                 "upgrade_options", i, 0, <<>>)>>
    ELSE IF Has(option, "new_price") /\ ~IsNumber(Get(option, "new_price"))
    THEN <<Issue("upgrade_option_invalid_new_price", "dish", n, did,
                 "upgrade_options", i, 0, <<>>)>>
    ELSE IF ~Has(option, "marketing_copy") \/ ~Truthy(Get(option, "marketing_copy"))
    THEN <<Issue("upgrade_option_missing_marketing_copy", "dish", n, did,
                 "upgrade_options", i, 0, <<>>)>>
    ELSE <<>>

\* lines 378-393: one element of upgrade_options
UpgradeOption(option, i, did, n) ==
    IF ~IsDict(option)
    THEN <<Issue("upgrade_option_not_object", "dish", n, did, "upgrade_options",
                 i, 0, <<>>)>>
    ELSE (IF ~Has(option, "new_name") \/ ~Truthy(Get(option, "new_name"))
          THEN <<Issue("upgrade_option_missing_new_name", "dish", n, did,
                       "upgrade_options", i, 0, <<>>)>>
          ELSE <<>>)
         \o
         (IF Has(option, "new_price") /\ ~IsNumber(Get(option, "new_price"))
          THEN <<Issue("upgrade_option_invalid_new_price", "dish", n, did,
                       "upgrade_options", i, 0, <<>>)>>
          ELSE <<>>)
         \o
         (IF ~Has(option, "marketing_copy") \/ ~Truthy(Get(option, "marketing_copy"))
          THEN <<Issue("upgrade_option_missing_marketing_copy", "dish", n, did,
                       "upgrade_options", i, 0, <<>>)>>
          ELSE <<>>)

\* lines 371-393
UpgradeOptions(dish, did, n) ==
    IF ~Has(dish, "upgrade_options") THEN Ok(<<>>)
    ELSE LET options == Get(dish, "upgrade_options") IN
         IF ~IsList(options)
         THEN Ok(<<Issue("upgrade_options_not_array", "dish", n, did,
                         "upgrade_options", NoPos, 0, <<>>)>>)
         ELSE Ok(Concat([i \in 1..Len(options.v) |->
                            UpgradeOption(options.v[i], i - 1, did, n)]))

\* the time-order rule, were equal times to be accepted
LtoTimeOrderStrict(lto, did, n) ==
    IF Has(lto, "start_time") /\ Has(lto, "end_time")
    THEN IF ~Comparable(Get(lto, "start_time"), Get(lto, "end_time")) THEN Raise
         ELSE IF Get(lto, "start_time").v > Get(lto, "end_time").v
         THEN Ok(<<Issue("lto_end_not_after_start", "dish", n, did, "lto_details",
                         NoPos, 0, <<>>)>>)
         ELSE Ok(<<>>)
    ELSE Ok(<<>>)

\* line 412: lto["start_time"] >= lto["end_time"]
LtoTimeOrder(lto, did, n) ==
    IF Has(lto, "start_time") /\ Has(lto, "end_time")
    THEN IF ~Comparable(Get(lto, "start_time"), Get(lto, "end_time")) THEN Raise
         ELSE IF Get(lto, "start_time").v >= Get(lto, "end_time").v
         THEN Ok(<<Issue("lto_end_not_after_start", "dish", n, did, "lto_details",
                         NoPos, 0, <<>>)>>)
         ELSE Ok(<<>>)
    ELSE Ok(<<>>)

\* lines 403-409: isinstance(lto[key], (int))
LtoTimePresent(lto, key, did, n) ==
    IF ~Has(lto, key) \/ Get(lto, key).t # "int"
    THEN Ok(<<Issue("lto_missing_time", "dish", n, did, key, NoPos, 0, <<>>)>>)
    ELSE Ok(<<>>)

\* lines 416-418
LtoMarketingCopy(lto, did, n) ==
    IF ~Has(lto, "marketing_copy") \/ ~IsStr(Get(lto, "marketing_copy"))
       \/ Len(Get(lto, "marketing_copy").v) < 10
    THEN Ok(<<Issue("lto_marketing_copy", "dish", n, did, "lto_details",
                    NoPos, 0, <<>>)>>)
    ELSE Ok(<<>>)

\* lines 396-418
LtoDetails(dish, did, n) ==
    IF ~Has(dish, "lto_details") THEN Ok(<<>>)
    ELSE LET lto == Get(dish, "lto_details") IN
         IF ~IsDict(lto)
         THEN Ok(<<Issue("lto_details_not_object", "dish", n, did, "lto_details",
                         NoPos, 0, <<>>)>>)
         ELSE Chain(<<LtoTimePresent(lto, "start_time", did, n),
                      LtoTimePresent(lto, "end_time", did, n),
                      LtoTimeOrder(lto, did, n),
                      LtoMarketingCopy(lto, did, n)>>)

\* lines 421-425
CustomerFeedback(dish, did, n) ==
    IF ~Has(dish, "customer_feedback_summary") THEN Ok(<<>>)
    ELSE LET feedback == Get(dish, "customer_feedback_summary") IN
         IF ~IsStr(feedback) \/ Len(feedback.v) < 5
         THEN Ok(<<Issue("customer_feedback_too_short", "dish", n, did,
                         "customer_feedback_summary", NoPos, 0, <<>>)>>)
         ELSE Ok(<<>>)

Unknown == Str(<<"u","n","k","n","o","w","n">>)

\* lines 264-425: the body of the dish loop for the n-th dish
CheckDish(dish, n, content_quality) ==
    IF ~IsDict(dish) THEN Raise
    ELSE LET dish_id == GetOr(dish, "id", Unknown)
             dish_name == GetOr(dish, "name", dish_id)
             did == Format(dish_id)
         IN Chain(<<Chain([k \in 1..Len(NarrativeFields) |->
                             NarrativeField(dish, NarrativeFields[k], dish_name,
                                            did, n, content_quality)]),
                    SupplierLocation(dish, did, n),
                    SupplierCertification(dish, did, n),
                    FarmDistance(dish, did, n),
                    SustainabilityImpact(dish, did, n),
                    UpgradeOptions(dish, did, n),
                    LtoDetails(dish, did, n),
                    CustomerFeedback(dish, did, n)>>)

(***************************************************************************)
(* Bundle rules, validator.py lines 429-446.                               *)
(***************************************************************************)
\* lines 433-434
BundleName(bundle, bid, n) ==
    IF ~Has(bundle, "bundle_name") \/ ~Truthy(Get(bundle, "bundle_name"))
    THEN <<Issue("bundle_name_missing", "bundle", n, bid, "bundle_name",
                 NoPos, 0, <<>>)>>
    ELSE <<>>

\* lines 437-438
BundleItems(bundle, bid, n) ==
    IF ~Has(bundle, "included_items") \/ ~Truthy(Get(bundle, "included_items"))
    THEN <<Issue("bundle_items_missing", "bundle", n, bid, "included_items",
                 NoPos, 0, <<>>)>>
    ELSE <<>>

\* lines 441-442
BundlePrice(bundle, bid, n) ==
    IF ~Has(bundle, "bundle_price") \/ ~IsNumber(Get(bundle, "bundle_price"))
       \/ Get(bundle, "bundle_price").v <= 0
    THEN <<Issue("bundle_price_invalid", "bundle", n, bid, "bundle_price",
                 NoPos, 0, <<>>)>>
    ELSE <<>>

\* lines 445-446
BundleMarketingCopy(bundle, bid, n) ==
    IF Has(bundle, "bundle_marketing_copy")
       /\ (~IsStr(Get(bundle, "bundle_marketing_copy"))
           \/ Len(Get(bundle, "bundle_marketing_copy").v) < 10)
    THEN <<Issue("bundle_marketing_copy_invalid", "bundle", n, bid,
                 "bundle_marketing_copy", NoPos, 0, <<>>)>>
    ELSE <<>>

\* CheckBundle, were the four rules an if/elif chain
CheckBundleFirstOnly(bundle, n) ==
    IF ~IsDict(bundle) THEN Raise
    ELSE LET bid == Format(GetOr(bundle, "bundle_id", Unknown)) IN
         Ok(IF BundleName(bundle, bid, n) # <<>> THEN BundleName(bundle, bid, n)
            ELSE IF BundleItems(bundle, bid, n) # <<>> THEN BundleItems(bundle, bid, n)
            ELSE IF BundlePrice(bundle, bid, n) # <<>> THEN BundlePrice(bundle, bid, n)
            ELSE BundleMarketingCopy(bundle, bid, n))

\* lines 429-446: the body of the bundle loop for the n-th bundle
CheckBundle(bundle, n) ==
    IF ~IsDict(bundle) THEN Raise
    ELSE LET bid == Format(GetOr(bundle, "bundle_id", Unknown)) IN
         Ok(BundleName(bundle, bid, n) \o BundleItems(bundle, bid, n)
            \o BundlePrice(bundle, bid, n) \o BundleMarketingCopy(bundle, bid, n))

(***************************************************************************)
(* SEO analysis, validator.py lines 449-523.                               *)
(***************************************************************************)
\* the list under a top-level key of the feed, empty when the key is absent
Section(f, key) == IF Has(f, key) THEN Get(f, key).v ELSE <<>>

\* lines 461-462: the lower-cased key message points of one restaurant
RestaurantKeywords(restaurant) ==
    IF Has(restaurant, "key_message_points")
    THEN {Lower(Get(restaurant, "key_message_points").v[j].v) :
             j \in 1..Len(Get(restaurant, "key_message_points").v)}
    ELSE {}

\* lines 461-462: point.lower() raises on a non-string, iterating a number
\* or null raises
RestaurantKeywordsRaise(restaurant) ==
    /\ Has(restaurant, "key_message_points")
    /\ \/ ~IsList(Get(restaurant, "key_message_points"))
       \/ \E j \in 1..Len(Get(restaurant, "key_message_points").v) :
             ~IsStr(Get(restaurant, "key_message_points").v[j])

\* lines 482-483: dish.get("name", dish.get("id", "unknown"))
DishKeyword(dish) == GetOr(dish, "name", GetOr(dish, "id", Unknown))

\* lines 452-483: the set keywords
Keywords(f) ==
    UNION {RestaurantKeywords(Section(f, "restaurants")[n]) :
              n \in 1..Len(Section(f, "restaurants"))}
    \cup {Lower(DishKeyword(Section(f, "dishes")[n]).v) :
             n \in 1..Len(Section(f, "dishes"))}

\* the marketing_copy of the offers of one restaurant, lines 471-474
OfferTexts(marketing) ==
    IF Has(marketing, "promotional_offers")
    THEN LET offers == Get(marketing, "promotional_offers").v
             HasCopy(o) == Has(o, "marketing_copy")
             withCopy == SelectSeq(offers, HasCopy)
         IN [k \in 1..Len(withCopy) |-> Get(withCopy[k], "marketing_copy")]
    ELSE <<>>

\* lines 465-477: the marketing texts of one restaurant
RestaurantTexts(restaurant) ==
    IF ~Has(restaurant, "marketing_extension") THEN <<>>
    ELSE LET marketing == Get(restaurant, "marketing_extension") IN
         (IF Has(marketing, "loyalty_program")
             /\ Has(Get(marketing, "loyalty_program"), "promo_blurb")
          THEN <<Get(Get(marketing, "loyalty_program"), "promo_blurb")>>
          ELSE <<>>)
         \o OfferTexts(marketing)
         \o (IF Has(marketing, "social_media_strategy")
                /\ Has(Get(marketing, "social_media_strategy"), "social_media_blurb")
             THEN <<Get(Get(marketing, "social_media_strategy"), "social_media_blurb")>>
             ELSE <<>>)

\* line 486
SeoNarrativeFields == <<"chef_story", "chef_highlight", "seasonal_story",
                        "cultural_context", "ingredient_story">>

\* lines 488-490: the texts of one narrative field of a dish
FieldTexts(dish, field) ==
    IF Has(dish, field) /\ IsDict(Get(dish, field))
       /\ Has(Get(dish, field), "translations")
    THEN LET translations == Get(Get(dish, field), "translations").v IN
         [k \in 1..Len(translations) |-> translations[k][2]]
    ELSE <<>>

\* lines 486-490: the narrative texts of one dish
DishTexts(dish) ==
    Concat([k \in 1..Len(SeoNarrativeFields) |-> FieldTexts(dish, SeoNarrativeFields[k])])

\* lines 451-490: the list all_marketing_text
AllMarketingText(f) ==
    Concat([n \in 1..Len(Section(f, "restaurants")) |->
               RestaurantTexts(Section(f, "restaurants")[n])])
    \o Concat([n \in 1..Len(Section(f, "dishes")) |->
                  DishTexts(Section(f, "dishes")[n])])

\* lines 455-490 raise when a key message point or a dish name is not a
\* string, or when translations is not a dict
CollectRaises(f) ==
    \/ \E n \in 1..Len(Section(f, "restaurants")) :
          RestaurantKeywordsRaise(Section(f, "restaurants")[n])
    \/ \E n \in 1..Len(Section(f, "dishes")) :
          \/ ~IsStr(DishKeyword(Section(f, "dishes")[n]))
          \/ \E k \in 1..Len(SeoNarrativeFields) :
                LET dish == Section(f, "dishes")[n]
                    field == SeoNarrativeFields[k]
                IN /\ Has(dish, field) /\ IsDict(Get(dish, field))
                   /\ Has(Get(dish, field), "translations")
                   /\ ~IsDict(Get(Get(dish, field), "translations"))

\* line 495
Stopwords == { <<"a">>, <<"a","n">>, <<"t","h","e">>, <<"a","n","d">>, <<"o","r">>,
               <<"b","u","t">>, <<"i","n">>, <<"o","n">>, <<"a","t">>, <<"t","o">>,
               <<"f","o","r">>, <<"i","s">>, <<"a","r","e">>, <<"w","a","s">>,
               <<"w","e","r","e">> }

\* lines 498-499: the tokens one text adds to all_words
TextTokens(text) ==
    LET raw == Split(text)
        words == [k \in 1..Len(raw) |-> Strip(Lower(raw[k]), Punctuation)]
        Kept(w) == w # <<>> /\ w \notin Stopwords
    IN SelectSeq(words, Kept)

\* lines 496-499: the list all_words
AllWords(texts) == Concat([k \in 1..Len(texts) |-> TextTokens(texts[k].v)])

\* lines 502, 506: word_count.get(k.strip(string.punctuation), 0)
WordCount(all_words, k) ==
    Cardinality({i \in 1..Len(all_words) : all_words[i] = Strip(k, Punctuation)})

RECURSIVE Perms(_)
\* the orders in which a set can be iterated
Perms(S) ==
    IF S = {} THEN {<<>>}
    ELSE UNION {{<<x>> \o p : p \in Perms(S \ {x})} : x \in S}

\* the unused-keyword report, were each unused keyword reported on its own
UnusedIssuePerKeyword(unused_keywords) ==
    [k \in 1..Len(unused_keywords) |->
        Issue("seo_unused_keywords", "seo", 0, <<>>, "keywords", NoPos, 0,
              <<unused_keywords[k]>>)]

\* lines 511-513
UnusedIssue(unused_keywords) ==
    IF unused_keywords # <<>>
    THEN <<Issue("seo_unused_keywords", "seo", 0, <<>>, "keywords", NoPos, 0,
                 unused_keywords)>>
    ELSE <<>>

\* lines 515-517
LowUseIssue(low_use_keywords) ==
    IF low_use_keywords # <<>>
    THEN <<Issue("seo_low_use_keywords", "seo", 0, <<>>, "keywords", NoPos, 0,
                 low_use_keywords)>>
    ELSE <<>>

\* line 502: the dict keyword_usage, as the set of its items
KeywordUsage(keywords, all_words) ==
    {<<k, WordCount(all_words, k)>> :
        k \in {q \in keywords : Strip(q, Punctuation) # <<>>}}

\* keyword_usage[k]
UsageOf(keyword_usage, k) == (CHOOSE item \in keyword_usage : item[1] = k)[2]

\* HasTexts, were the keywords looked up even when there is no text
HasTextsAlways(texts) == TRUE

\* line 493: if all_marketing_text
HasTexts(texts) == texts # <<>>

\* IsUnused, were the unused keywords reported only with more than 5 texts
IsUnusedGated(count, texts) == count = 0 /\ Len(texts) > 5

\* line 505: count == 0
IsUnused(count, texts) == count = 0

\* IsLowUse, were the low-use keywords reported from 5 texts on
IsLowUseAtFive(count, texts) == 0 < count /\ count < 3 /\ Len(texts) >= 5

\* line 506: 0 < count < 3 and len(all_marketing_text) > 5
IsLowUse(count, texts) == 0 < count /\ count < 3 /\ Len(texts) > 5

\* lines 493-517, with order the order in which the set keywords is iterated
\* (the dict keyword_usage keeps it)
SeoIssues(texts, keyword_usage, order) ==
    IF ~HasTexts(texts) THEN <<>>
    ELSE LET InUsage(k) == \E item \in keyword_usage : item[1] = k
             usage == SelectSeq(order, InUsage)
             Unused(k) == IsUnused(UsageOf(keyword_usage, k), texts)
             LowUse(k) == IsLowUse(UsageOf(keyword_usage, k), texts)
         IN UnusedIssue(SelectSeq(usage, Unused)) \o LowUseIssue(SelectSeq(usage, LowUse))

\* lines 449-517: text.split() raises on a text that is not a string
SeoRaises(f) ==
    \/ CollectRaises(f)
    \/ \E k \in 1..Len(AllMarketingText(f)) : ~IsStr(AllMarketingText(f)[k])

(***************************************************************************)
(* The feeds of the model.  Every top-level section is absent or a list of *)
(* objects drawn from a pool; the pools hold the well-formed and the       *)
(* ill-formed cases of the rules.  A feed has at most MaxEntities objects. *)
(***************************************************************************)
\* n times the word w, separated by single blanks
Words(w, n) ==
    IF n = 0 THEN <<>>
    ELSE SubSeq([i \in 1..(n * (Len(w) + 1)) |->
                    IF i % (Len(w) + 1) = 0 THEN " " ELSE w[i % (Len(w) + 1)]],
                1, n * (Len(w) + 1) - 1)

Pho == <<"p","h","o">>

\* a sentence of n words that names the dish "pho"
Sentence(n) == Words(Pho, n) \o <<".">>

GoodTemplate ==
    Str(<<"{">> \o TemplateVariables[1] \o <<"}"," ","{">> \o TemplateVariables[2]
        \o <<"}"," ","{">> \o TemplateVariables[3] \o <<"}">>)

HttpUrl == Str(<<"h","t","t","p",":","/","/","x">>)

RClean ==
    Dict(<< <<"id", Str(<<"r","1">>)>>,
            <<"name", Str(<<"O","n","e">>)>>,
            <<"suggested_prompt_template", GoodTemplate>>,
            <<"marketing_extension", Dict(<<
                <<"loyalty_program", Dict(<<
                    <<"tiers", List(<<Str(<<"g","o","l","d">>)>>)>>,
                    <<"promo_blurb", Str(Sentence(5))>> >>)>>,
                <<"promotional_offers", List(<<Dict(<<
                    <<"offer_name", Str(<<"n","o","o","n">>)>>,
                    <<"start_time", Num(1)>>,
                    <<"end_time", Num(2)>>,
                    <<"marketing_copy", Str(Words(Pho, 5) \o <<"!">>)>> >>)>>)>>,
                <<"social_media_strategy", Dict(<<
                    <<"platforms", List(<<Str(<<"w","e","b">>)>>)>>,
                    <<"hashtags", List(<<Str(<<"#","p","h","o">>)>>)>>,
                    <<"social_media_blurb", Str(Sentence(10))>> >>)>>,
                <<"website_cta", Dict(<<
                    <<"button_text", Str(<<"G","o">>)>>,
                    <<"target_url", HttpUrl>> >>)>> >>)>> >>)

\* no id; a one-word and a three-word key message point; offers that end
\* before, when and after they start, one without end_time
RPointsOffers ==
    Dict(<< <<"key_message_points",
              List(<<Str(<<"t","a","s","t","y">>),
                     Str(<<"C","h","e","a","p"," ","e","a","t","s"," ","d","a","i","l","y">>)>>)>>,
            <<"marketing_extension", Dict(<<
                <<"promotional_offers", List(<<
                    Dict(<< <<"offer_name", Str(<<"l","a","t","e">>)>>,
                            <<"start_time", Num(1000)>>, <<"end_time", Num(500)>> >>),
                    Dict(<< <<"start_time", Num(5)>>, <<"end_time", Num(5)>>,
                            <<"marketing_copy", Str(Pho)>> >>),
                    Dict(<< <<"start_time", Num(7)>> >>),
                    Dict(<< <<"offer_name", Str(<<"d","a","y">>)>>,
                            <<"start_time", Num(1)>>, <<"end_time", Num(2)>> >>) >>)>> >>)>> >>)

LocalFood == <<"L","o","c","a","l","F","o","o","d">>

\* a hashtag without "#", no social_media_blurb
RHashNoBlurb ==
    Dict(<< <<"id", Str(<<"r","3">>)>>,
            <<"marketing_extension", Dict(<<
                <<"social_media_strategy", Dict(<<
                    <<"platforms", List(<<Str(<<"w","e","b">>)>>)>>,
                    <<"hashtags", List(<<Str(LocalFood)>>)>> >>)>> >>)>> >>)

\* a hashtag without "#" and one with, and a social_media_blurb of 3 words
RHashBlurb ==
    Dict(<< <<"id", Str(<<"r","4">>)>>,
            <<"marketing_extension", Dict(<<
                <<"social_media_strategy", Dict(<<
                    <<"platforms", List(<<Str(<<"w","e","b">>)>>)>>,
                    <<"hashtags", List(<<Str(LocalFood), Str(<<"#","p","h","o">>)>>)>>,
                    <<"social_media_blurb", Str(Sentence(3))>> >>)>> >>)>> >>)

\* a key message point that is a number
RBadPoint ==
    Dict(<< <<"id", Str(<<"r","5">>)>>,
            <<"key_message_points", List(<<Num(123)>>)>> >>)

\* a target_url that is a number
RBadUrl ==
    Dict(<< <<"id", Str(<<"r","6">>)>>,
            <<"marketing_extension", Dict(<<
                <<"website_cta", Dict(<< <<"target_url", Num(5)>> >>)>> >>)>> >>)

\* a template that holds one placeholder in braces, the names of the other two
\* without braces, and a brace that is never closed
BareTemplate ==
    Str(TemplateVariables[1] \o <<" ","{">> \o TemplateVariables[2] \o <<"}"," ">>
        \o TemplateVariables[3] \o <<" ","{">>)

FreshPhoDaily == <<"F","r","e","s","h"," ","p","h","o"," ","d","a","i","l","y">>

HotSoup == <<"H","o","t"," ","s","o","u","p"," ","n","o","w",".">>

Offer(copy) ==
    Dict(<< <<"offer_name", Str(<<"n","o","o","n">>)>>,
            <<"start_time", Num(1)>>, <<"end_time", Num(2)>>,
            <<"marketing_copy", Str(copy)>> >>)

\* a three-word and a one-word key message point, and six offers: four whose
\* marketing_copy holds the three-word point, two that hold neither point
RSeo ==
    Dict(<< <<"id", Str(<<"r","7">>)>>,
            <<"suggested_prompt_template", BareTemplate>>,
            <<"key_message_points", List(<<Str(FreshPhoDaily), Str(<<"P","h","o">>)>>)>>,
            <<"marketing_extension", Dict(<<
                <<"promotional_offers", List(<<
                    Offer(FreshPhoDaily), Offer(HotSoup), Offer(FreshPhoDaily),
                    Offer(FreshPhoDaily), Offer(HotSoup), Offer(FreshPhoDaily) >>)>> >>)>> >>)

\* none of the optional sections
RBare ==
    Dict(<< <<"id", Str(<<"r","8">>)>>, <<"name", Str(<<"T","w","o">>)>> >>)

RestaurantPool == {RClean, RPointsOffers, RHashNoBlurb, RHashBlurb, RBadPoint, RBadUrl}

\* the restaurants of the feeds that exercise the keyword report, the
\* placeholders and the absence of every optional section
ExtraRestaurantPool == {RSeo, RBare}

DClean ==
    Dict(<< <<"id", Str(<<"d","1">>)>>,
            <<"name", Str(<<"P","h","o">>)>>,
            <<"chef_highlight", Dict(<< <<"translations",
                Dict(<< <<"en", Str(Sentence(10))>> >>)>> >>)>>,
            <<"farm_distance", Num(100)>> >>)

\* chef_highlight translations of 8, 9, 10, 50, 51 and 60 words
DHighlights ==
    Dict(<< <<"id", Str(<<"d","2">>)>>,
            <<"name", Str(<<"P","h","o">>)>>,
            <<"chef_highlight", Dict(<< <<"translations",
                Dict(<< <<"en", Str(Sentence(8))>>,
                        <<"fr", Str(Sentence(9))>>,
                        <<"de", Str(Sentence(10))>>,
                        <<"es", Str(Sentence(50))>>,
                        <<"it", Str(Sentence(51))>>,
                        <<"pt", Str(Sentence(60))>> >>)>> >>)>> >>)

\* an lto_details whose start_time is a string and whose end_time a number
DLtoText ==
    Dict(<< <<"id", Str(<<"d","3">>)>>,
            <<"name", Str(<<"L","t","o">>)>>,
            <<"lto_details", Dict(<<
                <<"start_time", Str(<<"s","o","o","n">>)>>,
                <<"end_time", Num(5)>>,
                <<"marketing_copy", Str(Sentence(4))>> >>)>> >>)

\* no name; chef_anecdote translations of 21 words without the id and of 22
\* words with the id in capitals; a supplier_certification of one character,
\* an upgrade option without marketing_copy
DShortCert ==
    Dict(<< <<"id", Str(<<"d","4">>)>>,
            <<"chef_anecdote", Dict(<< <<"translations",
                Dict(<< <<"en", Str(Sentence(21))>>,
                        <<"fr", Str(<<"D","4"," ">> \o Sentence(21))>> >>)>> >>)>>,
            <<"supplier_certification", Str(<<"x">>)>>,
            <<"upgrade_options", List(<<Dict(<<
                <<"new_name", Str(<<"X","L">>)>> >>)>>)>> >>)

Bun == <<"b","u","n">>

\* a name that two of the ten words of the first of two translations repeat;
\* chef_anecdote translations of 21 words without the name and without final
\* punctuation, of 20 words without the name, and of 22 words with the name
\* in capitals;
\* upgrade options that are empty, not an object, with an empty new_name,
\* complete, and with a new_name only; an lto_details that ends when it
\* starts; a customer_feedback_summary of two characters
DExtras ==
    Dict(<< <<"id", Str(<<"d","5">>)>>,
            <<"name", Str(<<"B","u","n">>)>>,
            <<"chef_highlight", Dict(<< <<"translations",
                Dict(<< <<"en", Str(Words(Bun, 2) \o <<" ">> \o Sentence(8))>>,
                        <<"fr", Str(Sentence(10))>> >>)>> >>)>>,
            <<"chef_anecdote", Dict(<< <<"translations",
                Dict(<< <<"en", Str(Words(Pho, 21))>>,
                        <<"fr", Str(Sentence(20))>>,
                        <<"de", Str(<<"B","U","N"," ">> \o Sentence(21))>> >>)>> >>)>>,
            <<"upgrade_options", List(<<
                Dict(<<>>),
                Num(3),
                Dict(<< <<"new_name", Str(<<>>)>>, <<"marketing_copy", Str(Pho)>> >>),
                Dict(<< <<"new_name", Str(<<"X","L">>)>>, <<"new_price", Num(5)>>,
                        <<"marketing_copy", Str(Pho)>> >>),
                Dict(<< <<"new_name", Str(<<"X","L">>)>> >>) >>)>>,
            <<"lto_details", Dict(<<
                <<"start_time", Num(5)>>,
                <<"end_time", Num(5)>>,
                <<"marketing_copy", Str(Sentence(4))>> >>)>>,
            <<"customer_feedback_summary", Str(<<"o","k">>)>> >>)

\* a text of two sentences, of a and b words
TwoSentences(a, b) == Sentence(a) \o <<" ">> \o Sentence(b)

\* three chef_story translations; chef_anecdote translations of two
\* sentences each, of 8 and 8, 8 and 9, and 2 and 2 words; an lto_details
\* that ends after it starts and has no marketing_copy
DLtoOk ==
    Dict(<< <<"id", Str(<<"d","6">>)>>,
            <<"name", Str(<<"P","h","o">>)>>,
            <<"chef_story", Dict(<< <<"translations",
                Dict(<< <<"en", Str(Sentence(10))>>,
                        <<"fr", Str(Sentence(10))>>,
                        <<"de", Str(Sentence(10))>> >>)>> >>)>>,
            <<"chef_anecdote", Dict(<< <<"translations",
                Dict(<< <<"en", Str(TwoSentences(8, 8))>>,
                        <<"fr", Str(TwoSentences(8, 9))>>,
                        <<"de", Str(TwoSentences(2, 2))>> >>)>> >>)>>,
            <<"lto_details", Dict(<<
                <<"start_time", Num(1)>>, <<"end_time", Num(2)>> >>)>> >>)

\* none of the optional sections
DBare ==
    Dict(<< <<"id", Str(<<"d","7">>)>>, <<"name", Str(<<"R","o","l","l">>)>> >>)

DishPool == {DClean, DHighlights, DLtoText, DShortCert}

\* the dishes of the feeds that exercise the keyword report, the upgrade
\* options, lto_details and the absence of every optional section
ExtraDishPool == {DExtras, DLtoOk, DBare}

\* a dish whose only optional section is a farm_distance
DFarm(id, distance) ==
    Dict(<< <<"id", Str(id)>>, <<"name", Str(<<"F","a","r","m">>)>>,
            <<"farm_distance", Num(distance)>> >>)

\* the dishes of the feeds that exercise the farm_distance warning: distances
\* of 500 and of 501
FarmDishPool == {DFarm(<<"d","8">>, 500), DFarm(<<"d","9">>, 501)}

Bundle(id, name, items, price, copy) ==
    Dict(<< <<"bundle_id", Str(id)>> >> \o name \o items \o price \o copy)

BName == << <<"bundle_name", Str(<<"D","u","o">>)>> >>
BItems == << <<"included_items", List(<<Str(<<"d","1">>)>>)>> >>
BPrice == << <<"bundle_price", Num(10)>> >>
BCopy == << <<"bundle_marketing_copy", Str(Sentence(3))>> >>

BundlePool ==
    { Bundle(<<"b","1">>, BName, BItems, BPrice, BCopy),
      Bundle(<<"b","2">>, BName, BItems, << <<"bundle_price", Num(0)>> >>, <<>>),
      Bundle(<<"b","3">>, BName, << <<"included_items", List(<<>>)>> >>, BPrice, <<>>),
      Bundle(<<"b","4">>, BName, << <<"included_items", List(<<>>)>> >>,
             << <<"bundle_price", Num(0)>> >>, <<>>),
      Dict(<<>>),
      Bundle(<<"b","6">>, << <<"bundle_name", Str(<<>>)>> >>, BItems,
             << <<"bundle_price", Str(<<"t","e","n">>)>> >>,
             << <<"bundle_marketing_copy", Str(<<"h","i">>)>> >>),
      Bundle(<<"b","7">>, BName, BItems, << <<"bundle_price", Num(0 - 1)>> >>, BCopy) }

ExtraBundlePool == {Bundle(<<"b","1">>, BName, BItems, BPrice, BCopy)}

\* the sequences over S of length at most n
SeqsUpTo(S, n) == UNION {[1..k -> S] : k \in 0..n}

\* a top-level section: absent, or a list of at most n objects of the pool
Sections(key, pool, n) ==
    {<<>>} \cup { << <<key, List(xs)>> >> : xs \in SeqsUpTo(pool, n) }

Header == << <<"header", Dict(<< <<"version", Str(<<"1",".","1">>)>> >>)>> >>

\* the number of objects of a section
Size(section) == IF section = <<>> THEN 0 ELSE Len(section[1][2].v)

\* the feeds of at most MaxEntities objects drawn from three pools
FeedsOf(restaurants, dishes, bundles) ==
    UNION { UNION { { Dict(Header \o rs \o ds \o bs) :
                        bs \in Sections("bundles", bundles,
                                        MaxEntities - Size(rs) - Size(ds)) } :
                    ds \in Sections("dishes", dishes, MaxEntities - Size(rs)) } :
            rs \in Sections("restaurants", restaurants, MaxEntities) }

Feeds ==
    FeedsOf(RestaurantPool, DishPool, BundlePool)
    \cup FeedsOf(ExtraRestaurantPool, ExtraDishPool, ExtraBundlePool)
    \cup FeedsOf({}, FarmDishPool, {})

\* the file at json_file_path: missing, not well-formed JSON, or a feed
Files ==
    {[kind |-> "missing", doc |-> Null], [kind |-> "malformed", doc |-> Null]}
    \cup {[kind |-> "json", doc |-> d] : d \in Feeds}

\* the file at the path given with --static: missing, not well-formed JSON,
\* or a feed of the header alone
StaticFiles ==
    {[kind |-> "missing", doc |-> Null], [kind |-> "malformed", doc |-> Null],
     [kind |-> "json", doc |-> Dict(Header)]}

Incrementality(value) ==
    << <<"header", Dict(<< <<"incrementality", Str(value)>> >>)>> >>

Entity == << <<"entity", List(<<>>)>> >>

\* realtime feeds in JSON: with and without entity, with a known, an unknown
\* and no incrementality, and with a header that is not an object
RealtimeFeeds ==
    { Dict(Incrementality(<<"F","U","L","L","_","D","A","T","A","S","E","T">>) \o Entity),
      Dict(Incrementality(<<"D","I","F","F","E","R","E","N","T","I","A","L">>) \o Entity),
      Dict(Incrementality(<<"N","O","N","E">>) \o Entity),
      Dict(Incrementality(<<"F","U","L","L","_","D","A","T","A","S","E","T">>)),
      Dict(Header \o Entity),
      Dict(Entity),
      Dict(<< <<"header", Num(1)>> >> \o Entity) }

\* the file at the path given with --realtime: the path ends in ".json" or
\* not; the file is missing, empty, not well-formed JSON, or a realtime feed
RealtimeFiles ==
    {[kind |-> k, doc |-> Null, json_name |-> b] :
        k \in {"missing", "empty", "malformed"}, b \in BOOLEAN}
    \cup {[kind |-> "json", doc |-> d, json_name |-> b] :
             d \in RealtimeFeeds, b \in BOOLEAN}

(***************************************************************************)
(* One call of validate_marketing_fields, lines 137-533, as a state        *)
(* machine: the load, one step per iteration of the restaurant, dish and   *)
(* bundle loops, the SEO block and the report.  main, lines 536-567, calls *)
(* it, validate_static_feed or validate_realtime_feed as mode tells, and   *)
(* exits with the code made from the value returned.                       *)
(***************************************************************************)
VARIABLES file, content_quality, seo_check, pc, feed, idx, validation_issues,
          result, report, run, first_issues, mode, exit_code

\* One call of create_marketing_templates of marketing_generator.py, lines
\* 396-470: its control point, the feed it builds, the indexes of its loops
\* and the two lists of the generate_bundle call under way.
VARIABLES gpc, output_feed, gidx, bundle_idx, restaurant_dishes, selected_dishes

genvars == <<gpc, output_feed, gidx, bundle_idx, restaurant_dishes, selected_dishes>>

vars == <<file, content_quality, seo_check, pc, feed, idx, validation_issues,
          result, report, run, first_issues, mode, exit_code, genvars>>

\* the generator is not run
GeneratorOff ==
    /\ gpc = "off"
    /\ output_feed = Null
    /\ gidx = 0
    /\ bundle_idx = 0
    /\ restaurant_dishes = <<>>
    /\ selected_dishes = <<>>

\* load_json_file, were it to keep the header of the feed only
load_json_file_header(f) ==
    IF f.kind = "json" THEN Dict(SubSeq(f.doc.v, 1, 1)) ELSE Null

\* load_json_file, were a failed load to yield an empty feed
load_json_file_empty(f) == IF f.kind = "json" THEN f.doc ELSE Dict(<<>>)

\* lines 51-58: None on FileNotFoundError and on JSONDecodeError
load_json_file(f) == IF f.kind = "json" THEN f.doc ELSE Null

NoReport == [kind |-> "none", issues |-> <<>>]

\* the path given on the command line is the empty string
NoPath == [kind |-> "no_path", doc |-> Null]

\* the process has not exited
NoExit == 0 - 1

Init ==
    /\ \/ mode = "marketing" /\ file \in Files
       \/ mode = "static" /\ file \in StaticFiles
       \/ mode = "realtime" /\ file \in RealtimeFiles
       \/ mode \in {"marketing", "static", "realtime"} /\ file = NoPath
    /\ exit_code = NoExit
    /\ content_quality \in BOOLEAN
    /\ seo_check \in BOOLEAN
    /\ pc = "load"
    /\ feed = Null
    /\ idx = 0
    /\ validation_issues = <<>>
    /\ result = "none"
    /\ report = NoReport
    /\ run = 1
    /\ first_issues = <<>>
    /\ GeneratorOff

\* the control point that follows the bundle loop at its i-th iteration
GotoBundles(f, i) ==
    IF i <= Len(Section(f, "bundles")) THEN <<"bundles", i>> ELSE <<"seo", 0>>

\* the control point that follows the dish loop at its i-th iteration
GotoDishes(f, i) ==
    IF i <= Len(Section(f, "dishes")) THEN <<"dishes", i>> ELSE GotoBundles(f, 1)

\* the control point that follows the restaurant loop at its i-th iteration
GotoRestaurants(f, i) ==
    IF i <= Len(Section(f, "restaurants")) THEN <<"restaurants", i>>
    ELSE GotoDishes(f, 1)

\* lines 139-148
Load ==
    /\ pc = "load"
    /\ mode = "marketing" /\ file # NoPath
    /\ feed' = load_json_file(file)
    /\ IF feed' = Null
       THEN /\ pc' = "returned"
            /\ result' = "False"
            /\ idx' = 0
       ELSE /\ pc' = GotoRestaurants(feed', 1)[1]
            /\ idx' = GotoRestaurants(feed', 1)[2]
            /\ result' = result
    /\ validation_issues' = <<>>
    /\ UNCHANGED <<genvars, file, content_quality, seo_check, report, run, first_issues,
                   mode, exit_code>>

\* an exception leaves validate_marketing_fields: nothing is returned
Raised ==
    /\ pc' = "raised"
    /\ UNCHANGED <<idx, validation_issues>>

\* Extend, were the issues of an entity to replace the list
ExtendReplacing(issues, found) == found

\* the issue list, were the issues of an iteration kept only while no issue
\* has been collected before
ExtendWhileEmpty(issues, found) == IF issues = <<>> THEN found ELSE issues

\* the issue list, were the issues of an iteration put in front of it
ExtendInFront(issues, found) == found \o issues

\* validation_issues.append, once for each issue found in an entity
Extend(issues, found) == issues \o found

\* lines 152-260
RestaurantStep ==
    /\ pc = "restaurants"
    /\ LET r == CheckRestaurant(Section(feed, "restaurants")[idx], idx, content_quality)
       IN IF r.exc THEN Raised
          ELSE /\ validation_issues' = Extend(validation_issues, r.iss)
               /\ pc' = GotoRestaurants(feed, idx + 1)[1]
               /\ idx' = GotoRestaurants(feed, idx + 1)[2]
    /\ UNCHANGED <<genvars, file, content_quality, seo_check, feed, result, report, run,
                   first_issues, mode, exit_code>>

\* lines 264-425
DishStep ==
    /\ pc = "dishes"
    /\ LET r == CheckDish(Section(feed, "dishes")[idx], idx, content_quality)
       IN IF r.exc THEN Raised
          ELSE /\ validation_issues' = Extend(validation_issues, r.iss)
               /\ pc' = GotoDishes(feed, idx + 1)[1]
               /\ idx' = GotoDishes(feed, idx + 1)[2]
    /\ UNCHANGED <<genvars, file, content_quality, seo_check, feed, result, report, run,
                   first_issues, mode, exit_code>>

\* lines 429-446
BundleStep ==
    /\ pc = "bundles"
    /\ LET r == CheckBundle(Section(feed, "bundles")[idx], idx)
       IN IF r.exc THEN Raised
          ELSE /\ validation_issues' = Extend(validation_issues, r.iss)
               /\ pc' = GotoBundles(feed, idx + 1)[1]
               /\ idx' = GotoBundles(feed, idx + 1)[2]
    /\ UNCHANGED <<genvars, file, content_quality, seo_check, feed, result, report, run,
                   first_issues, mode, exit_code>>

\* line 449
SeoRequested(f) == seo_check /\ (Has(f, "restaurants") \/ Has(f, "dishes"))

\* AppendSeo, were the SEO issues put in front
AppendSeoFirst(issues, seo) == seo \o issues

\* lines 512, 516: the SEO issues are appended to the list
AppendSeo(issues, seo) == issues \o seo

\* lines 449-523; the iteration order of the set keywords depends on the
\* string hashes of the process, so every order is possible
SeoStep ==
    /\ pc = "seo"
    /\ IF ~SeoRequested(feed)
       THEN /\ pc' = "report"
            /\ UNCHANGED <<idx, validation_issues>>
       ELSE IF SeoRaises(feed) THEN Raised
       ELSE LET texts == AllMarketingText(feed)
                keyword_usage == KeywordUsage(Keywords(feed), AllWords(texts))
            IN \E order \in Perms(Keywords(feed)) :
                  /\ validation_issues'
                        = AppendSeo(validation_issues,
                                    SeoIssues(texts, keyword_usage, order))
                  /\ pc' = "report"
                  /\ idx' = idx
    /\ UNCHANGED <<genvars, file, content_quality, seo_check, feed, result, report, run,
                   first_issues, mode, exit_code>>

\* Verdict, were a single issue tolerated
\* the verdict, were issues worded as warnings not to fail the run
VerdictWarningsPass(issues) ==
    IF \E i \in 1..Len(issues) : issues[i].rule # "farm_distance_large_warning"
    THEN "False" ELSE "True"

VerdictLenient(issues) == IF Len(issues) > 1 THEN "False" ELSE "True"

\* lines 526-533: the value returned
Verdict(issues) == IF issues # <<>> THEN "False" ELSE "True"

\* lines 526-533
Report ==
    /\ pc = "report"
    /\ result' = Verdict(validation_issues)
    /\ report' = IF validation_issues # <<>>
                 THEN [kind |-> "issues", issues |-> validation_issues]
                 ELSE [kind |-> "pass", issues |-> <<>>]
    /\ pc' = "returned"
    /\ UNCHANGED <<genvars, file, content_quality, seo_check, feed, idx, validation_issues,
                   run, first_issues, mode, exit_code>>

\* the validator is run a second time, in a new process, on the same file
\* with the same flags
Rerun ==
    /\ pc = "returned"
    /\ exit_code # NoExit
    /\ run = 1
    /\ run' = 2
    /\ first_issues' = validation_issues
    /\ pc' = "load"
    /\ feed' = Null
    /\ idx' = 0
    /\ validation_issues' = <<>>
    /\ result' = "none"
    /\ report' = NoReport
    /\ exit_code' = NoExit
    /\ UNCHANGED <<genvars, file, content_quality, seo_check, mode>>

\* lines 61-85: the schema beside the script loads or not; jsonschema.validate
\* accepts the feed, raises ValidationError, or raises another exception
StaticFeed ==
    /\ pc = "load"
    /\ mode = "static" /\ file # NoPath
    /\ \E schema_loaded \in BOOLEAN :
       \E outcome \in {"valid", "ValidationError", "SchemaError"} :
          IF ~schema_loaded \/ load_json_file(file) = Null
          THEN pc' = "returned" /\ result' = "False"
          ELSE IF outcome = "SchemaError"
          THEN pc' = "raised" /\ result' = result
          ELSE /\ pc' = "returned"
               /\ result' = IF outcome = "valid" THEN "True" ELSE "False"
    /\ UNCHANGED <<genvars, file, content_quality, seo_check, feed, idx, validation_issues,
                   report, run, first_issues, mode, exit_code>>

\* lines 88-134: the value returned, "raise" when feed.get("header", {}) is
\* not an object
validate_realtime_feed(f) ==
    IF f.json_name
    THEN LET doc == load_json_file(f) IN
         IF doc = Null THEN "False"
         ELSE IF ~Has(doc, "header") \/ ~Has(doc, "entity") THEN "False"
         ELSE IF ~IsDict(Get(doc, "header")) THEN "raise"
         ELSE IF GetOr(Get(doc, "header"), "incrementality", Null)
                    \in {Str(<<"F","U","L","L","_","D","A","T","A","S","E","T">>),
                         Str(<<"D","I","F","F","E","R","E","N","T","I","A","L">>)}
         THEN "True"
         ELSE "False"
    ELSE IF f.kind \in {"missing", "empty"} THEN "False" ELSE "True"

\* lines 88-134
RealtimeFeed ==
    /\ pc = "load"
    /\ mode = "realtime" /\ file # NoPath
    /\ IF validate_realtime_feed(file) = "raise"
       THEN pc' = "raised" /\ result' = result
       ELSE pc' = "returned" /\ result' = validate_realtime_feed(file)
    /\ UNCHANGED <<genvars, file, content_quality, seo_check, feed, idx, validation_issues,
                   report, run, first_issues, mode, exit_code>>

\* lines 552-565: an empty path is false, no branch is taken, and line 567
\* raises UnboundLocalError on success
NoBranch ==
    /\ pc = "load"
    /\ file = NoPath
    /\ pc' = "raised"
    /\ UNCHANGED <<genvars, file, content_quality, seo_check, feed, idx, validation_issues,
                   result, report, run, first_issues, mode, exit_code>>

\* ExitCode, were every run to exit with 0
ExitCodeZero(success) == 0

\* line 567: 0 if success else 1
ExitCode(success) == IF success = "True" THEN 0 ELSE 1

\* line 567: sys.exit with the value returned; an exception that leaves main
\* ends the process with code 1
Exit ==
    /\ pc \in {"returned", "raised"}
    /\ exit_code = NoExit
    /\ exit_code' = IF pc = "returned" THEN ExitCode(result) ELSE 1
    /\ UNCHANGED <<genvars, file, content_quality, seo_check, pc, feed, idx,
                   validation_issues, result, report, run, first_issues, mode>>

Next ==
    \/ Load
    \/ RestaurantStep
    \/ DishStep
    \/ BundleStep
    \/ SeoStep
    \/ Report
    \/ StaticFeed
    \/ RealtimeFeed
    \/ NoBranch
    \/ Exit
    \/ Rerun

Spec == Init /\ [][Next]_vars

(***************************************************************************)
(* Vocabulary of the properties.                                           *)
(***************************************************************************)
\* validate_marketing_fields has returned for a feed that was loaded
Returned == pc = "returned" /\ feed # Null

\* the rule set a rule belongs to: word-count, punctuation, mention and
\* sentence heuristics are content-quality rules, the keyword reports are
\* SEO rules, every other rule (the hashtag format among them) is structural
RuleSet(rule) ==
    IF rule \in {"seo_unused_keywords", "seo_low_use_keywords"} THEN "seo"
    ELSE IF rule \in {"key_message_point_too_short", "key_message_point_too_long",
                      "promo_blurb_too_short", "offer_copy_too_short",
                      "offer_copy_not_engaging", "social_media_blurb_too_short",
                      "narrative_too_long", "narrative_too_short",
                      "narrative_punctuation", "narrative_dish_name",
                      "narrative_word_length", "narrative_uniform_sentences"}
    THEN "content_quality"
    ELSE "structural"

RuleSetRank(rule) ==
    CASE RuleSet(rule) = "structural" -> 1
      [] RuleSet(rule) = "content_quality" -> 2
      [] RuleSet(rule) = "seo" -> 3

\* the place of an issue's entity in the traversal of the document
TraversalRank(issue) ==
    CASE issue.ent = "restaurant" -> issue.idx
      [] issue.ent = "dish" -> 1000 + issue.idx
      [] issue.ent = "bundle" -> 2000 + issue.idx
      [] issue.ent = "seo" -> 3000

\* the number of issues of the list that satisfy P
Count(issues, P(_)) == Cardinality({i \in 1..Len(issues) : P(issues[i])})

(***************************************************************************)
(* C1  Whenever validate_marketing_fields returns for a loaded feed, with  *)
(* any flags, it returns True if and only if the issue list is empty.      *)
(***************************************************************************)
C1_VerdictIffNoIssues ==
    Returned => /\ result = "True" <=> validation_issues = <<>>
                /\ result = "False" <=> validation_issues # <<>>
                /\ report.kind = "pass" <=> validation_issues = <<>>

\* a run that collected exactly one issue has returned False
C1_Witness ==
    Returned /\ Len(validation_issues) = 1 /\ result = "False"

Faulty(ent, n) ==
    CASE ent = "restaurant" ->
            CheckRestaurant(Section(feed, "restaurants")[n], n, content_quality).exc
      [] ent = "dish" -> CheckDish(Section(feed, "dishes")[n], n, content_quality).exc
      [] ent = "bundle" -> CheckBundle(Section(feed, "bundles")[n], n).exc

EntitiesOf(f) ==
    {<<"restaurant", n>> : n \in 1..Len(Section(f, "restaurants"))}
    \cup {<<"dish", n>> : n \in 1..Len(Section(f, "dishes"))}
    \cup {<<"bundle", n>> : n \in 1..Len(Section(f, "bundles"))}

(***************************************************************************)
(* C3  A rule that fails unexpectedly on one entity does not abort the     *)
(* run: no exception leaves validate_marketing_fields, and the returned    *)
(* list holds exactly one diagnostic issue for each entity whose rules     *)
(* failed.                                                                 *)
(***************************************************************************)
C3_GracefulDegradation ==
    /\ pc # "raised"
    /\ Returned =>
          \A e \in EntitiesOf(feed) :
              LET Diagnostic(issue) == /\ issue.rule = "analyzer_fault"
                                       /\ issue.ent = e[1] /\ issue.idx = e[2]
              IN Count(validation_issues, Diagnostic) = IF Faulty(e[1], e[2]) THEN 1 ELSE 0

(***************************************************************************)
(* C4  When the file is missing or not well-formed JSON the function       *)
(* returns False straight from the load: no loop and no SEO block runs,    *)
(* no issue is collected and nothing is reported.                          *)
(***************************************************************************)
C4_LoadFailureStopsFirst ==
    (mode = "marketing" /\ file.kind \in {"missing", "malformed"}) =>
        /\ pc \in {"load", "returned"}
        /\ feed = Null
        /\ validation_issues = <<>>
        /\ report = NoReport
        /\ pc = "returned" => result = "False"

\* the call on a missing file has returned
C4_Witness ==
    mode = "marketing" /\ file.kind = "missing" /\ pc = "returned" /\ result = "False"

(***************************************************************************)
(* C5  Two runs on the same file with the same flags, in separate          *)
(* processes, end with the same issue list.                                *)
(***************************************************************************)
C5_SameIssuesOnRerun ==
    (run = 2 /\ pc = "returned") => validation_issues = first_issues

(***************************************************************************)
(* C6  With content_quality and seo_check both off only structural issues  *)
(* are ever appended, and the run returns True exactly when no structural  *)
(* issue was found.                                                        *)
(***************************************************************************)
C6_FlagsGateRuleSets ==
    (~content_quality /\ ~seo_check) =>
        /\ \A i \in 1..Len(validation_issues) :
              RuleSet(validation_issues[i].rule) = "structural"
        /\ Returned =>
              (result = "True" <=>
                  \A i \in 1..Len(validation_issues) :
                      RuleSet(validation_issues[i].rule) # "structural")

\* the feed has content-quality findings when the flag is on
HasQualityFindings(f) ==
    \E n \in 1..Len(Section(f, "dishes")) :
        LET r == CheckDish(Section(f, "dishes")[n], n, TRUE) IN
        ~r.exc /\ \E i \in 1..Len(r.iss) : RuleSet(r.iss[i].rule) = "content_quality"

\* a feed with content-quality findings passes when the flags are off
C6_Witness ==
    /\ Returned /\ ~content_quality /\ ~seo_check
    /\ HasQualityFindings(feed)
    /\ result = "True"

\* the hashtags of the n-th restaurant, when it has a list of them
HashtagsOf(f, n) ==
    LET restaurant == Section(f, "restaurants")[n] IN
    IF /\ Has(restaurant, "marketing_extension")
       /\ Has(Get(restaurant, "marketing_extension"), "social_media_strategy")
       /\ Has(Get(Get(restaurant, "marketing_extension"), "social_media_strategy"),
              "hashtags")
       /\ IsList(Get(Get(Get(restaurant, "marketing_extension"),
                         "social_media_strategy"), "hashtags"))
    THEN Get(Get(Get(restaurant, "marketing_extension"), "social_media_strategy"),
             "hashtags").v
    ELSE <<>>

(***************************************************************************)
(* C7  For every restaurant, every entry of social_media_strategy.hashtags *)
(* that does not start with "#" is reported by exactly one issue naming    *)
(* it, for every setting of the flags, with or without social_media_blurb. *)
(***************************************************************************)
C7_HashtagRuleStructural ==
    Returned =>
        \A n \in 1..Len(Section(feed, "restaurants")) :
            \A k \in 1..Len(HashtagsOf(feed, n)) :
                LET tag == HashtagsOf(feed, n)[k]
                    Names(issue) == /\ issue.rule = "hashtag_format"
                                    /\ issue.ent = "restaurant" /\ issue.idx = n
                                    /\ issue.items = <<tag.v>>
                    Same(x) == x = tag
                IN (IsStr(tag) /\ ~StartsWith(tag.v, <<"#">>)) =>
                      Count(validation_issues, Names)
                         = Len(SelectSeq(HashtagsOf(feed, n), Same))

\* the texts of the chef_highlight translations of the n-th dish
HighlightsOf(f, n) ==
    LET dish == Section(f, "dishes")[n] IN
    IF /\ Has(dish, "chef_highlight") /\ IsDict(Get(dish, "chef_highlight"))
       /\ Has(Get(dish, "chef_highlight"), "translations")
       /\ IsDict(Get(Get(dish, "chef_highlight"), "translations"))
    THEN LET translations == Get(Get(dish, "chef_highlight"), "translations").v IN
         [k \in 1..Len(translations) |-> translations[k][2]]
    ELSE <<>>

(***************************************************************************)
(* C8  With content_quality on, a chef_highlight translation of n words    *)
(* yields exactly one "too short" issue naming the field and n when        *)
(* n < 10, exactly one "too long" issue naming n when n > 50, and neither  *)
(* when 10 <= n <= 50.                                                     *)
(***************************************************************************)
C8_ChefHighlightBounds ==
    (Returned /\ content_quality) =>
        \A n \in 1..Len(Section(feed, "dishes")) :
            LET highlights == HighlightsOf(feed, n)
                IsText(text) == IsStr(text)
                texts == SelectSeq(highlights, IsText)
                counts == SubSeq([k \in 1..Len(texts) |-> Len(Split(texts[k].v))],
                                 1, Len(texts))
                OfField(issue) == /\ issue.ent = "dish" /\ issue.idx = n
                                  /\ issue.field = "chef_highlight"
                                  /\ issue.rule \in {"narrative_too_short",
                                                     "narrative_too_long"}
                reported == SelectSeq(validation_issues, OfField)
            IN \A m \in {counts[k] : k \in 1..Len(counts)}
                        \cup {reported[i].num : i \in 1..Len(reported)} :
                  LET OfLength(c) == c = m
                      Short(issue) == issue.rule = "narrative_too_short" /\ issue.num = m
                      Long(issue) == issue.rule = "narrative_too_long" /\ issue.num = m
                  IN /\ Len(SelectSeq(reported, Short))
                           = IF m < 10 THEN Len(SelectSeq(counts, OfLength)) ELSE 0
                     /\ Len(SelectSeq(reported, Long))
                           = IF m > 50 THEN Len(SelectSeq(counts, OfLength)) ELSE 0

\* translations of 8, 10, 50 and 60 words were checked: one issue each for
\* 8 and 60
C8_Witness ==
    /\ Returned /\ content_quality
    /\ \E n \in 1..Len(Section(feed, "dishes")) :
          /\ \A m \in {8, 10, 50, 60} :
                \E k \in 1..Len(HighlightsOf(feed, n)) :
                    Len(Split(HighlightsOf(feed, n)[k].v)) = m
          /\ \E i, j \in 1..Len(validation_issues) :
                /\ validation_issues[i].rule = "narrative_too_short"
                /\ validation_issues[i].idx = n /\ validation_issues[i].num = 8
                /\ validation_issues[j].rule = "narrative_too_long"
                /\ validation_issues[j].idx = n /\ validation_issues[j].num = 60

\* the promotional offers of the n-th restaurant, when it has a list of them
OffersOf(f, n) ==
    LET restaurant == Section(f, "restaurants")[n] IN
    IF /\ Has(restaurant, "marketing_extension")
       /\ Has(Get(restaurant, "marketing_extension"), "promotional_offers")
       /\ IsList(Get(Get(restaurant, "marketing_extension"), "promotional_offers"))
    THEN Get(Get(restaurant, "marketing_extension"), "promotional_offers").v
    ELSE <<>>

EndsBeforeStart(offer) ==
    /\ Has(offer, "start_time") /\ Has(offer, "end_time")
    /\ Get(offer, "start_time").v > Get(offer, "end_time").v

Violated(bundle, rule) ==
    CASE rule = "bundle_name_missing" ->
            ~Has(bundle, "bundle_name") \/ ~Truthy(Get(bundle, "bundle_name"))
      [] rule = "bundle_items_missing" ->
            ~Has(bundle, "included_items") \/ ~Truthy(Get(bundle, "included_items"))
      [] rule = "bundle_price_invalid" ->
            \/ ~Has(bundle, "bundle_price")
            \/ ~IsNumber(Get(bundle, "bundle_price"))
            \/ Get(bundle, "bundle_price").v <= 0
      [] rule = "bundle_marketing_copy_invalid" ->
            /\ Has(bundle, "bundle_marketing_copy")
            /\ \/ ~IsStr(Get(bundle, "bundle_marketing_copy"))
               \/ Len(Get(bundle, "bundle_marketing_copy").v) < 10

BundleRules == {"bundle_name_missing", "bundle_items_missing",
                "bundle_price_invalid", "bundle_marketing_copy_invalid"}

(***************************************************************************)
(* C10  The issues of a bundle are one per violated predicate among        *)
(* bundle_name (missing or empty), included_items (missing or empty),      *)
(* bundle_price (missing, not a number, or <= 0) and bundle_marketing_copy *)
(* (present but not a string of 10 characters): a bundle violating two     *)
(* predicates gets both issues.                                            *)
(***************************************************************************)
C10_BundleRulesIndependent ==
    Returned =>
        \A n \in 1..Len(Section(feed, "bundles")) :
            LET OfBundle(issue) == issue.ent = "bundle" /\ issue.idx = n IN
            /\ \A rule \in BundleRules :
                  LET OfRule(issue) == OfBundle(issue) /\ issue.rule = rule IN
                  Count(validation_issues, OfRule)
                     = IF Violated(Section(feed, "bundles")[n], rule) THEN 1 ELSE 0
            /\ Count(validation_issues, OfBundle)
                  = Cardinality({rule \in BundleRules :
                                    Violated(Section(feed, "bundles")[n], rule)})

\* a bundle with price 0 and no items got the price and the items issue
C10_Witness ==
    /\ Returned
    /\ \E n \in 1..Len(Section(feed, "bundles")) :
          LET bundle == Section(feed, "bundles")[n]
              OfBundle(issue) == issue.ent = "bundle" /\ issue.idx = n
          IN /\ Has(bundle, "bundle_price") /\ Get(bundle, "bundle_price") = Num(0)
             /\ Has(bundle, "included_items") /\ Get(bundle, "included_items") = List(<<>>)
             /\ Count(validation_issues, OfBundle) = 2

\* the SEO issue of the given rule lists the keyword k
Listed(rule, k) ==
    \E i \in 1..Len(validation_issues) :
        /\ validation_issues[i].rule = rule
        /\ \E j \in 1..Len(validation_issues[i].items) :
              validation_issues[i].items[j] = k

\* the token stream of each text
TokenStreams(texts) == [t \in 1..Len(texts) |-> TextTokens(texts[t].v)]

\* the number of places of the token streams at which the tokens of the
\* phrase k stand one after the other
PhraseCount(streams, k) ==
    LET phrase == TextTokens(k)
        At(tokens) == Cardinality({i \in 1..(Len(tokens) - Len(phrase) + 1) :
                                     SubSeq(tokens, i, i + Len(phrase) - 1) = phrase})
    IN SumLen([t \in 1..Len(streams) |-> [c \in 1..At(streams[t]) |-> c]])

(***************************************************************************)
(* C11  With seo_check on and at least 6 marketing texts, a key message    *)
(* point (lower-cased, of one or several words) that stands nowhere in the *)
(* texts is listed in the "unused" SEO issue, and one that stands there 4  *)
(* times is listed neither as unused nor as low-use.                       *)
(***************************************************************************)
C11_KeyMessagePointUsage ==
    (Returned /\ seo_check /\ Len(AllMarketingText(feed)) >= 6) =>
        LET streams == TokenStreams(AllMarketingText(feed)) IN
        \A n \in 1..Len(Section(feed, "restaurants")) :
            \A k \in RestaurantKeywords(Section(feed, "restaurants")[n]) :
                LET c == PhraseCount(streams, k) IN
                /\ c = 0 => Listed("seo_unused_keywords", k)
                /\ c = 4 => /\ ~Listed("seo_unused_keywords", k)
                            /\ ~Listed("seo_low_use_keywords", k)

(***************************************************************************)
(* C12  (as stated) With seo_check on, every keyword (key message point or *)
(* dish name) that stands nowhere in the marketing texts is listed in the  *)
(* "unused" SEO issue, whatever the number of texts: with five or fewer    *)
(* texts, and with none at all.                                            *)
(***************************************************************************)
C12_UnusedWhateverCorpus ==
    (Returned /\ seo_check) =>
        LET streams == TokenStreams(AllMarketingText(feed)) IN
        \A k \in Keywords(feed) :
            PhraseCount(streams, k) = 0 => Listed("seo_unused_keywords", k)

(***************************************************************************)
(* C12  (amended) With seo_check on and at least one marketing text, every *)
(* keyword that stands nowhere in the texts is listed in the "unused" SEO  *)
(* issue, with five or fewer texts as with more; with no marketing text at *)
(* all the keyword analysis is skipped and no SEO issue is appended.       *)
(***************************************************************************)
C12_UnusedGivenSomeText ==
    (Returned /\ seo_check) =>
        LET streams == TokenStreams(AllMarketingText(feed)) IN
        IF streams = <<>>
        THEN \A i \in 1..Len(validation_issues) :
                 RuleSet(validation_issues[i].rule) # "seo"
        ELSE \A k \in Keywords(feed) :
                 PhraseCount(streams, k) = 0 => Listed("seo_unused_keywords", k)

\* with one to five texts, a keyword that stands in none of them is listed
C12_Witness ==
    /\ Returned /\ seo_check
    /\ Len(AllMarketingText(feed)) \in 1..5
    /\ \E k \in Keywords(feed) :
          /\ PhraseCount(TokenStreams(AllMarketingText(feed)), k) = 0
          /\ Listed("seo_unused_keywords", k)

\* the number of tokens of the token stream all_words that are the keyword k
Occurrences(all_words, k) == WordCount(all_words, k)

(***************************************************************************)
(* C13  With seo_check on, a keyword is listed in the "low usage" SEO      *)
(* issue if and only if 1 or 2 tokens of the token stream are the keyword  *)
(* and the document has more than 5 marketing texts: a keyword with 3 or   *)
(* more occurrences is never listed, and with 5 or fewer texts there is no *)
(* low-usage issue.                                                        *)
(***************************************************************************)
C13_LowUseThresholds ==
    (Returned /\ seo_check) =>
        LET texts == AllMarketingText(feed)
            all_words == AllWords(texts)
        IN /\ \A k \in Keywords(feed) :
                 Listed("seo_low_use_keywords", k)
                    <=> (Occurrences(all_words, k) \in {1, 2} /\ Len(texts) > 5)
           /\ Len(texts) <= 5 =>
                 \A i \in 1..Len(validation_issues) :
                     validation_issues[i].rule # "seo_low_use_keywords"

\* with more than 5 texts a keyword of 2 occurrences is listed as low-use and
\* a keyword of 3 or more occurrences is not
C13_Witness ==
    /\ Returned /\ seo_check
    /\ Len(AllMarketingText(feed)) > 5
    /\ \E k, h \in Keywords(feed) :
          /\ Occurrences(AllWords(AllMarketingText(feed)), k) = 2
          /\ Listed("seo_low_use_keywords", k)
          /\ Occurrences(AllWords(AllMarketingText(feed)), h) >= 3
          /\ ~Listed("seo_low_use_keywords", h)

\* the optional sections of a restaurant, lines 162-186
OptionalRestaurantSections ==
    {"key_message_points", "suggested_prompt_template", "marketing_extension"}

\* the optional sections of a dish, lines 264-421
OptionalDishSections ==
    {NarrativeFields[k] : k \in 1..Len(NarrativeFields)}
    \cup {"supplier_location", "supplier_certification", "farm_distance",
          "sustainability_impact", "upgrade_options", "lto_details",
          "customer_feedback_summary"}

\* no restaurant and no dish of the feed carries an optional section, and no
\* bundle violates a bundle rule
Plain(f) ==
    /\ \A n \in 1..Len(Section(f, "restaurants")) :
          /\ IsDict(Section(f, "restaurants")[n])
          /\ \A key \in OptionalRestaurantSections :
                ~Has(Section(f, "restaurants")[n], key)
    /\ \A n \in 1..Len(Section(f, "dishes")) :
          /\ IsDict(Section(f, "dishes")[n])
          /\ \A key \in OptionalDishSections : ~Has(Section(f, "dishes")[n], key)
    /\ \A n \in 1..Len(Section(f, "bundles")) :
          \A rule \in BundleRules : ~Violated(Section(f, "bundles")[n], rule)

Succeeded == pc = "returned" /\ result = "True"

(***************************************************************************)
(* C15  When the process has exited, its exit code is 0 if and only if the *)
(* validation that main selected returned True; it is not 0 when issues    *)
(* were found, when the file could not be loaded, and when an exception    *)
(* ended the run.                                                          *)
(***************************************************************************)
C15_ExitCodeIffSuccess ==
    exit_code # NoExit =>
        /\ exit_code = 0 <=> Succeeded
        /\ validation_issues # <<>> => exit_code # 0
        /\ (mode \in {"marketing", "static"} /\ file.kind # "json") => exit_code # 0
        /\ (mode = "realtime" /\ file.kind \in {"missing", "empty"}) => exit_code # 0
        /\ pc = "raised" => exit_code # 0

\* a marketing check that found issues has exited with code 1
C15_Witness ==
    /\ mode = "marketing" /\ Returned
    /\ validation_issues # <<>>
    /\ exit_code = 1

\* the list earlier is a prefix of the list later
IsPrefix(earlier, later) ==
    /\ Len(earlier) <= Len(later)
    /\ SubSeq(later, 1, Len(earlier)) = earlier

(***************************************************************************)
(* C16  Within a run every step leaves validation_issues as it was or      *)
(* extends it at its end: the list before the step is a prefix of the list *)
(* after it, so its length never decreases and no collected issue is       *)
(* modified, reordered or removed.                                         *)
(***************************************************************************)
C16_AppendOnly ==
    [][run' = run => IsPrefix(validation_issues, validation_issues')]_vars

\* the SEO block has extended a list that the loops had filled
C16_Witness ==
    /\ pc = "report"
    /\ \E i, j \in 1..Len(validation_issues) :
          /\ i < j
          /\ validation_issues[i].ent = "restaurant"
          /\ validation_issues[j].ent = "seo"

(***************************************************************************)
(* C17  A run of validate_marketing_fields never changes the document:     *)
(* from the load on, through every step and after the return, with any     *)
(* verdict and any flags, the feed - every restaurant, dish, bundle and    *)
(* nested section - equals the content of the file as loaded.              *)
(***************************************************************************)
C17_DocumentUnchanged ==
    (mode = "marketing" /\ pc # "load") => feed = file.doc

\* a run with both flags on has walked restaurants and dishes, found issues,
\* and returned with the feed as loaded
C17_Witness ==
    /\ Returned /\ content_quality /\ seo_check
    /\ Section(feed, "restaurants") # <<>>
    /\ Section(feed, "dishes") # <<>>
    /\ validation_issues # <<>>
    /\ feed = file.doc

\* the required placeholder names that do not occur in braces in the template
MissingPlaceholders(template) ==
    {k \in 1..Len(TemplateVariables) :
        ~Contains(template, <<"{">> \o TemplateVariables[k] \o <<"}">>)}

(***************************************************************************)
(* C18  For a restaurant whose suggested_prompt_template is a non-empty    *)
(* string, the placeholder issues are exactly one per required placeholder *)
(* among {restaurant_name}, {key_message_points}, {length} that is not a   *)
(* literal substring of the template: their number is the number of        *)
(* missing placeholders, a template holding all three yields none, and     *)
(* the template is not reported as invalid (it is never formatted, so a    *)
(* template no formatter accepts is checked like any other).               *)
(***************************************************************************)
C18_PlaceholderIssues ==
    Returned =>
        \A n \in 1..Len(Section(feed, "restaurants")) :
            LET restaurant == Section(feed, "restaurants")[n]
                template == Get(restaurant, "suggested_prompt_template")
                OfTemplate(issue) ==
                    /\ issue.ent = "restaurant" /\ issue.idx = n
                    /\ issue.rule \in {"prompt_template_missing_placeholder",
                                       "prompt_template_invalid"}
                reported == SelectSeq(validation_issues, OfTemplate)
                missing == MissingPlaceholders(template.v)
            IN (/\ Has(restaurant, "suggested_prompt_template")
                /\ IsStr(template) /\ template.v # <<>>)
               => /\ Len(reported) = Cardinality(missing)
                  /\ \A k \in missing :
                        \E i \in 1..Len(reported) :
                            /\ reported[i].rule = "prompt_template_missing_placeholder"
                            /\ reported[i].items = <<TemplateVariables[k]>>

\* a run checked a template with a single placeholder in braces, two bare
\* names and an unclosed brace, reported the two bare names and returned
C18_Witness ==
    /\ Returned
    /\ \E n \in 1..Len(Section(feed, "restaurants")) :
          /\ GetOr(Section(feed, "restaurants")[n], "suggested_prompt_template",
                   Null) = BareTemplate
          /\ \E i, j \in 1..Len(validation_issues) :
                /\ i < j
                /\ validation_issues[i].rule = "prompt_template_missing_placeholder"
                /\ validation_issues[i].idx = n
                /\ validation_issues[i].items = <<TemplateVariables[1]>>
                /\ validation_issues[j].rule = "prompt_template_missing_placeholder"
                /\ validation_issues[j].idx = n
                /\ validation_issues[j].items = <<TemplateVariables[3]>>
          /\ Cardinality({i \in 1..Len(validation_issues) :
                /\ validation_issues[i].ent = "restaurant"
                /\ validation_issues[i].idx = n
                /\ validation_issues[i].field = "suggested_prompt_template"}) = 2

\* "missing or empty": the key is absent from the object or its value is falsy
MissingOrEmpty(option, key) == ~Has(option, key) \/ ~Truthy(Get(option, key))

\* the number of issues of the n-th dish with the given rule and position
DishIssueCount(n, rule, pos) ==
    Cardinality({i \in 1..Len(validation_issues) :
        /\ validation_issues[i].ent = "dish" /\ validation_issues[i].idx = n
        /\ validation_issues[i].rule = rule /\ validation_issues[i].pos = pos})

(***************************************************************************)
(* C19  No short-circuit on upgrade options: in a returned run, for every  *)
(* dish whose upgrade_options is a list and every element i of it that is  *)
(* an object, there is one "missing new_name" issue for element i exactly  *)
(* when new_name is missing or empty and, separately, one "missing         *)
(* marketing_copy" issue for element i exactly when marketing_copy is      *)
(* missing or empty, whatever the elements before i were; and the later    *)
(* sections of the dish are still checked: a customer_feedback_summary     *)
(* that is too short and an lto_details object without marketing_copy are  *)
(* each reported once.                                                     *)
(***************************************************************************)
C19_UpgradeOptionsNoShortCircuit ==
    Returned =>
        \A n \in 1..Len(Section(feed, "dishes")) :
            LET dish == Section(feed, "dishes")[n]
                options == GetOr(dish, "upgrade_options", Null)
                lto == GetOr(dish, "lto_details", Null)
                feedback == GetOr(dish, "customer_feedback_summary", Null)
            IN IsList(options) =>
                /\ \A i \in 1..Len(options.v) :
                      IsDict(options.v[i]) =>
                          /\ DishIssueCount(n, "upgrade_option_missing_new_name", i - 1)
                                = IF MissingOrEmpty(options.v[i], "new_name")
                                  THEN 1 ELSE 0
                          /\ DishIssueCount(n, "upgrade_option_missing_marketing_copy",
                                            i - 1)
                                = IF MissingOrEmpty(options.v[i], "marketing_copy")
                                  THEN 1 ELSE 0
                /\ (IsDict(lto) /\ ~Has(lto, "marketing_copy"))
                      => DishIssueCount(n, "lto_marketing_copy", NoPos) = 1
                /\ (IsStr(feedback) /\ Len(feedback.v) < 5)
                      => DishIssueCount(n, "customer_feedback_too_short", NoPos) = 1

\* a returned run checked a dish whose first option misses both fields (two
\* issues), whose second element is no object, whose later options were still
\* checked (one issue for the last) and whose customer feedback was reported
C19_Witness ==
    /\ Returned
    /\ \E n \in 1..Len(Section(feed, "dishes")) :
          LET options == GetOr(Section(feed, "dishes")[n], "upgrade_options", Null)
          IN /\ IsList(options) /\ Len(options.v) = 5
             /\ IsDict(options.v[1])
             /\ MissingOrEmpty(options.v[1], "new_name")
             /\ MissingOrEmpty(options.v[1], "marketing_copy")
             /\ ~IsDict(options.v[2])
             /\ DishIssueCount(n, "upgrade_option_missing_new_name", 0) = 1
             /\ DishIssueCount(n, "upgrade_option_missing_marketing_copy", 0) = 1
             /\ DishIssueCount(n, "upgrade_option_not_object", 1) = 1
             /\ DishIssueCount(n, "upgrade_option_missing_new_name", 2) = 1
             /\ DishIssueCount(n, "upgrade_option_missing_marketing_copy", 4) = 1
             /\ DishIssueCount(n, "customer_feedback_too_short", NoPos) = 1

\* the lto_details of the n-th dish, Null when it has none
LtoOf(f, n) == GetOr(Section(f, "dishes")[n], "lto_details", Null)

\* lto_details is an object whose start_time and end_time are integers
HasIntegerTimes(lto) ==
    /\ IsDict(lto)
    /\ Has(lto, "start_time") /\ Get(lto, "start_time").t = "int"
    /\ Has(lto, "end_time") /\ Get(lto, "end_time").t = "int"

\* lto_details has a marketing_copy that is a string of at least 10 characters
HasLtoCopy(lto) ==
    /\ Has(lto, "marketing_copy") /\ IsStr(Get(lto, "marketing_copy"))
    /\ Len(Get(lto, "marketing_copy").v) >= 10

(***************************************************************************)
(* C20  In a returned run, for every dish whose lto_details is an object   *)
(* with integer start_time and end_time, the time-ordering issue is        *)
(* reported (once) if and only if end_time <= start_time - equal times     *)
(* are rejected - and no "missing time" issue is reported, whether or not  *)
(* the marketing_copy issue of the same lto_details is reported.           *)
(***************************************************************************)
C20_LtoTimeOrder ==
    Returned =>
        \A n \in 1..Len(Section(feed, "dishes")) :
            LET lto == LtoOf(feed, n) IN
            HasIntegerTimes(lto) =>
                /\ DishIssueCount(n, "lto_end_not_after_start", NoPos)
                      = IF Get(lto, "end_time").v <= Get(lto, "start_time").v
                        THEN 1 ELSE 0
                /\ DishIssueCount(n, "lto_missing_time", NoPos) = 0
                /\ DishIssueCount(n, "lto_marketing_copy", NoPos)
                      = IF HasLtoCopy(lto) THEN 0 ELSE 1

\* a returned run checked one dish with equal times and a good marketing_copy
\* (time-ordering issue alone) and one with end_time after start_time and no
\* marketing_copy (marketing_copy issue alone)
C20_Witness ==
    /\ Returned
    /\ \E n, m \in 1..Len(Section(feed, "dishes")) :
          /\ HasIntegerTimes(LtoOf(feed, n)) /\ HasLtoCopy(LtoOf(feed, n))
          /\ Get(LtoOf(feed, n), "end_time").v = Get(LtoOf(feed, n), "start_time").v
          /\ DishIssueCount(n, "lto_end_not_after_start", NoPos) = 1
          /\ DishIssueCount(n, "lto_marketing_copy", NoPos) = 0
          /\ HasIntegerTimes(LtoOf(feed, m)) /\ ~HasLtoCopy(LtoOf(feed, m))
          /\ Get(LtoOf(feed, m), "end_time").v > Get(LtoOf(feed, m), "start_time").v
          /\ DishIssueCount(m, "lto_end_not_after_start", NoPos) = 0
          /\ DishIssueCount(m, "lto_marketing_copy", NoPos) = 1

\* validate_marketing_fields has just returned from the first run over the
\* file: its issue list and verdict are final (the states of main that follow
\* and the second run over the same file hold the list of a run again)
FirstReturn == Returned /\ run = 1 /\ exit_code = NoExit

\* the texts of the translations of a narrative field of the n-th dish
TranslationsOf(f, n, field) ==
    LET dish == Section(f, "dishes")[n] IN
    IF /\ Has(dish, field) /\ IsDict(Get(dish, field))
       /\ Has(Get(dish, field), "translations")
       /\ IsDict(Get(Get(dish, field), "translations"))
    THEN LET translations == Get(Get(dish, field), "translations").v IN
         [k \in 1..Len(translations) |-> translations[k][2].v]
    ELSE <<>>

\* the text has more than one non-empty sentence, all of the same number of
\* words
UniformSentences(text) ==
    LET sentences == Sentences(text) IN
    /\ Len(sentences) > 1
    /\ \A a, b \in 1..Len(sentences) :
          Len(Split(sentences[a])) = Len(Split(sentences[b]))

\* the number of issues of the n-th dish with the given rule and field
FieldIssueCount(n, rule, field) ==
    Cardinality({i \in 1..Len(validation_issues) :
        /\ validation_issues[i].ent = "dish" /\ validation_issues[i].idx = n
        /\ validation_issues[i].rule = rule
        /\ validation_issues[i].field = field})

\* the number of translations of the field of the n-th dish that satisfy P
\* (the issues of a field carry no language code, so they are counted)
TextCount(f, n, field, P(_)) ==
    LET texts == TranslationsOf(f, n, field) IN
    Cardinality({k \in 1..Len(texts) : P(texts[k])})

(***************************************************************************)
(* C21 (as stated)  With content_quality on, every narrative text with     *)
(* more than one non-empty sentence yields a uniform-sentence-length       *)
(* issue if and only if all its sentences have the same number of words,   *)
(* for texts of any length, texts of 15 words or fewer included: per dish  *)
(* and field, the uniform-sentence issues are as many as the translations  *)
(* with uniform sentences.                                                 *)
(***************************************************************************)
C21_UniformSentencesAnyLength ==
    (FirstReturn /\ content_quality) =>
        \A n \in 1..Len(Section(feed, "dishes")) :
            \A k \in 1..Len(NarrativeFields) :
                FieldIssueCount(n, "narrative_uniform_sentences", NarrativeFields[k])
                    = TextCount(feed, n, NarrativeFields[k], UniformSentences)

(***************************************************************************)
(* C21 (amended)  With content_quality on, a narrative text of more than   *)
(* 15 words yields a uniform-sentence-length issue if and only if it has   *)
(* more than one non-empty sentence and all its sentences have the same    *)
(* number of words; a text of 15 words or fewer never yields it.           *)
(***************************************************************************)
C21_UniformSentencesOverFifteenWords ==
    (FirstReturn /\ content_quality) =>
        \A n \in 1..Len(Section(feed, "dishes")) :
            \A k \in 1..Len(NarrativeFields) :
                LET LongAndUniform(text) ==
                        Len(Split(text)) > 15 /\ UniformSentences(text)
                IN FieldIssueCount(n, "narrative_uniform_sentences",
                                   NarrativeFields[k])
                      = TextCount(feed, n, NarrativeFields[k], LongAndUniform)

\* a returned run with content_quality checked a field with a 16-word text of
\* two 8-word sentences, a 17-word text of sentences of 8 and 9 words and a
\* 4-word text of two 2-word sentences, and reported the field once
C21_Witness ==
    /\ FirstReturn /\ content_quality
    /\ \E n \in 1..Len(Section(feed, "dishes")) :
          LET texts == TranslationsOf(feed, n, "chef_anecdote") IN
          /\ \E k \in 1..Len(texts) :
                Len(Split(texts[k])) > 15 /\ UniformSentences(texts[k])
          /\ \E k \in 1..Len(texts) :
                /\ Len(Split(texts[k])) > 15 /\ Len(Sentences(texts[k])) > 1
                /\ ~UniformSentences(texts[k])
          /\ \E k \in 1..Len(texts) :
                Len(Split(texts[k])) <= 15 /\ UniformSentences(texts[k])
          /\ FieldIssueCount(n, "narrative_uniform_sentences", "chef_anecdote") = 1

\* the text ends with ".", "!" or "?"
EndsWithTerminal(text) == text # <<>> /\ text[Len(text)] \in {".", "!", "?"}

NoTerminal(text) == ~EndsWithTerminal(text)

\* the marketing texts of the n-th restaurant that the content-quality rules
\* analyse, each with the field and position its issues carry
RestaurantTextInstances(f, n) ==
    LET restaurant == Section(f, "restaurants")[n]
        marketing == GetOr(restaurant, "marketing_extension", Dict(<<>>))
        program == GetOr(marketing, "loyalty_program", Dict(<<>>))
        social == GetOr(marketing, "social_media_strategy", Dict(<<>>))
        offers == OffersOf(f, n)
    IN (IF Has(program, "promo_blurb")
        THEN {[field |-> "promo_blurb", pos |-> NoPos,
               text |-> Get(program, "promo_blurb").v]}
        ELSE {})
       \cup
       (IF Has(social, "social_media_blurb")
        THEN {[field |-> "social_media_blurb", pos |-> NoPos,
               text |-> Get(social, "social_media_blurb").v]}
        ELSE {})
       \cup
       {[field |-> "marketing_copy", pos |-> j - 1,
         text |-> Get(offers[j], "marketing_copy").v] :
            j \in {i \in 1..Len(offers) : Has(offers[i], "marketing_copy")}}

(***************************************************************************)
(* C22  With content_quality on, every analysed text instance that does    *)
(* not end with ".", "!" or "?" yields exactly one terminal-punctuation    *)
(* issue tied to its field, and a text that ends with one of them yields   *)
(* none: per dish and narrative field the terminal-punctuation issues are  *)
(* as many as the translations without terminal punctuation, and each      *)
(* restaurant promo_blurb, offer marketing_copy and social_media_blurb     *)
(* has one such issue exactly when it lacks terminal punctuation.          *)
(***************************************************************************)
C22_TerminalPunctuationEveryText ==
    (FirstReturn /\ content_quality) =>
        /\ \A n \in 1..Len(Section(feed, "dishes")) :
              \A k \in 1..Len(NarrativeFields) :
                  FieldIssueCount(n, "narrative_punctuation", NarrativeFields[k])
                      = TextCount(feed, n, NarrativeFields[k], NoTerminal)
        /\ \A n \in 1..Len(Section(feed, "restaurants")) :
              \A instance \in RestaurantTextInstances(feed, n) :
                  Cardinality({i \in 1..Len(validation_issues) :
                      /\ validation_issues[i].ent = "restaurant"
                      /\ validation_issues[i].idx = n
                      /\ validation_issues[i].rule = "narrative_punctuation"
                      /\ validation_issues[i].field = instance.field
                      /\ validation_issues[i].pos = instance.pos})
                    = IF NoTerminal(instance.text) THEN 1 ELSE 0

\* the name of the n-th dish, its id when it has no name
NameOrId(f, n) ==
    LET dish == Section(f, "dishes")[n] IN
    GetOr(dish, "name", GetOr(dish, "id", Unknown)).v

(***************************************************************************)
(* C23  With content_quality on, a dish narrative translation yields a     *)
(* dish-name-mention issue if and only if it has more than 20 words and    *)
(* the dish's name (its id when the dish has no name) does not occur in    *)
(* it, letter case ignored; a text of 20 words or fewer never yields it.   *)
(* Per dish and field the dish-name issues are as many as the              *)
(* translations of more than 20 words that lack the name, and each names   *)
(* that name.                                                              *)
(***************************************************************************)
C23_DishNameMention ==
    (FirstReturn /\ content_quality) =>
        \A n \in 1..Len(Section(feed, "dishes")) :
            \A k \in 1..Len(NarrativeFields) :
                LET LongWithoutName(text) ==
                        /\ Len(Split(text)) > 20
                        /\ ~Contains(Lower(text), Lower(NameOrId(feed, n)))
                IN /\ FieldIssueCount(n, "narrative_dish_name", NarrativeFields[k])
                         = TextCount(feed, n, NarrativeFields[k], LongWithoutName)
                   /\ \A i \in 1..Len(validation_issues) :
                         (/\ validation_issues[i].rule = "narrative_dish_name"
                          /\ validation_issues[i].idx = n)
                            => validation_issues[i].items = <<NameOrId(feed, n)>>

\* a returned run with content_quality checked, for a dish with a name, texts
\* of 21 words without the name, of 20 words without it and of 22 words with
\* the name in capitals, and reported the field once
C23_Witness ==
    /\ FirstReturn /\ content_quality
    /\ \E n \in 1..Len(Section(feed, "dishes")) :
          LET texts == TranslationsOf(feed, n, "chef_anecdote")
              name == Lower(NameOrId(feed, n))
          IN /\ Has(Section(feed, "dishes")[n], "name")
             /\ \E k \in 1..Len(texts) :
                   Len(Split(texts[k])) = 21 /\ ~Contains(Lower(texts[k]), name)
             /\ \E k \in 1..Len(texts) :
                   Len(Split(texts[k])) = 20 /\ ~Contains(Lower(texts[k]), name)
             /\ \E k \in 1..Len(texts) :
                   /\ Len(Split(texts[k])) > 20 /\ ~Contains(texts[k], NameOrId(feed, n))
                   /\ Contains(Lower(texts[k]), name)
             /\ FieldIssueCount(n, "narrative_dish_name", "chef_anecdote") = 1

\* all marketing/narrative text of the document: the restaurant marketing
\* texts and the translations of every narrative field that the
\* content-quality rules inspect on a dish
NarrativeCorpus(f) ==
    Concat([n \in 1..Len(Section(f, "restaurants")) |->
               RestaurantTexts(Section(f, "restaurants")[n])])
    \o Concat([n \in 1..Len(Section(f, "dishes")) |->
                  Concat([k \in 1..Len(NarrativeFields) |->
                             FieldTexts(Section(f, "dishes")[n], NarrativeFields[k])])])

(***************************************************************************)
(* C24  With seo_check on, the SEO token stream holds the tokens of all    *)
(* marketing/narrative text of the document, the seven narrative fields    *)
(* of every dish included: a keyword that is a token of any of these       *)
(* texts - of a chef_anecdote or a culinary_philosophy text as of any      *)
(* other - is not listed in the "unused" SEO issue, and it is listed as    *)
(* low-use only if it occurs once or twice in them and they are more than  *)
(* five.                                                                   *)
(***************************************************************************)
C24_SeoCorpusAllNarratives ==
    (FirstReturn /\ seo_check) =>
        LET texts == NarrativeCorpus(feed)
            all_words == AllWords(texts)
        IN \A k \in Keywords(feed) :
              /\ Listed("seo_unused_keywords", k) => Occurrences(all_words, k) = 0
              /\ Listed("seo_low_use_keywords", k)
                    => (Occurrences(all_words, k) \in {1, 2} /\ Len(texts) > 5)

(***************************************************************************)
(* C25  For every setting of the flags, within the structural rule set     *)
(* and within the content-quality rule set the issues of the final list    *)
(* follow the traversal of the document: every issue about a restaurant    *)
(* stands before every issue about a dish, which stands before every       *)
(* issue about a bundle, and of two entities of the same section the       *)
(* issues of the one at the lower list index stand first.                  *)
(***************************************************************************)
C25_TraversalOrderWithinRuleSet ==
    FirstReturn =>
        \A i, j \in 1..Len(validation_issues) :
            (/\ i < j
             /\ RuleSet(validation_issues[i].rule) = RuleSet(validation_issues[j].rule)
             /\ RuleSet(validation_issues[i].rule) \in {"structural", "content_quality"})
            => TraversalRank(validation_issues[i]) <= TraversalRank(validation_issues[j])

\* the final list holds structural issues of two entities and
\* content-quality issues of two entities, a content-quality issue of the
\* first entity standing between structural ones
C25_Witness ==
    /\ FirstReturn
    /\ \E i, j \in 1..Len(validation_issues) :
          /\ i < j
          /\ RuleSet(validation_issues[i].rule) = "structural"
          /\ RuleSet(validation_issues[j].rule) = "structural"
          /\ TraversalRank(validation_issues[i]) < TraversalRank(validation_issues[j])
    /\ \E i, j \in 1..Len(validation_issues) :
          /\ i < j
          /\ RuleSet(validation_issues[i].rule) = "content_quality"
          /\ RuleSet(validation_issues[j].rule) = "content_quality"
          /\ TraversalRank(validation_issues[i]) < TraversalRank(validation_issues[j])
    /\ \E i, j \in 1..Len(validation_issues) :
          /\ i < j
          /\ RuleSet(validation_issues[i].rule) = "content_quality"
          /\ RuleSet(validation_issues[j].rule) = "structural"

\* the issues of the entities of one section, each entity evaluated on its
\* own, put together by list index
PerEntity(f, section, Check(_, _)) ==
    Concat([n \in 1..Len(Section(f, section)) |-> Check(Section(f, section)[n], n).iss])

\* the per-entity results merged in canonical order: restaurants, dishes,
\* bundles, each by list index
MergedInCanonicalOrder(f, quality) ==
    LET OfRestaurant(restaurant, n) == CheckRestaurant(restaurant, n, quality)
        OfDish(dish, n) == CheckDish(dish, n, quality)
        OfBundle(bundle, n) == CheckBundle(bundle, n)
    IN PerEntity(f, "restaurants", OfRestaurant)
       \o PerEntity(f, "dishes", OfDish)
       \o PerEntity(f, "bundles", OfBundle)

IsEntityIssue(issue) == RuleSet(issue.rule) # "seo"

FarmDistanceOf(f, n) == GetOr(Section(f, "dishes")[n], "farm_distance", Null)

(***************************************************************************)
(* C27  Severity does not soften the verdict: for every setting of the     *)
(* flags, a dish whose farm_distance is a number greater than 500 yields   *)
(* one issue worded as a warning and the run returns False, also when the  *)
(* warnings are the only issues; a farm_distance greater than 0 and at     *)
(* most 500 yields no issue about the field.                               *)
(***************************************************************************)
C27_WarningFailsTheRun ==
    FirstReturn =>
        /\ \A n \in 1..Len(Section(feed, "dishes")) :
              LET distance == FarmDistanceOf(feed, n) IN
              IsNumber(distance) =>
                  /\ distance.v > 500 =>
                        /\ FieldIssueCount(n, "farm_distance_large_warning",
                                           "farm_distance") = 1
                        /\ result = "False"
                  /\ (0 < distance.v /\ distance.v <= 500) =>
                        \A i \in 1..Len(validation_issues) :
                            (validation_issues[i].ent = "dish"
                             /\ validation_issues[i].idx = n)
                               => validation_issues[i].field # "farm_distance"
        /\ (/\ validation_issues # <<>>
            /\ \A i \in 1..Len(validation_issues) :
                  validation_issues[i].rule = "farm_distance_large_warning")
              => result = "False"

\* a run over a dish with farm_distance 500 and a dish with farm_distance 501
\* that violate nothing else returned False with the one warning
C27_Witness ==
    /\ FirstReturn /\ result = "False"
    /\ Len(validation_issues) = 1
    /\ validation_issues[1].rule = "farm_distance_large_warning"
    /\ \E n, m \in 1..Len(Section(feed, "dishes")) :
          /\ FarmDistanceOf(feed, n) = Num(500)
          /\ FarmDistanceOf(feed, m) = Num(501)
          /\ validation_issues[1].idx = m

(***************************************************************************)
(* C28  For every setting of the flags and whatever the number of          *)
(* keywords, the final list holds at most two SEO issues: at most one      *)
(* "unused" issue, which lists all unused keywords together, and at most   *)
(* one "low usage" issue, which lists all low-use keywords together; both  *)
(* stand after every issue of the restaurant, dish and bundle passes, and  *)
(* there is none when seo_check is off.                                    *)
(***************************************************************************)
C28_AtMostTwoSeoIssues ==
    FirstReturn =>
        LET IsUnusedReport(issue) == issue.rule = "seo_unused_keywords"
            IsLowUseReport(issue) == issue.rule = "seo_low_use_keywords"
            IsSeo(issue) == RuleSet(issue.rule) = "seo"
        IN /\ Count(validation_issues, IsUnusedReport) <= 1
           /\ Count(validation_issues, IsLowUseReport) <= 1
           /\ Count(validation_issues, IsSeo) <= 2
           /\ ~seo_check => Count(validation_issues, IsSeo) = 0
           /\ \A i, j \in 1..Len(validation_issues) :
                 (IsSeo(validation_issues[i]) /\ ~IsSeo(validation_issues[j])) => j < i
           /\ \A i \in 1..Len(validation_issues) :
                 IsSeo(validation_issues[i]) =>
                     /\ validation_issues[i].items # <<>>
                     /\ \A a, b \in 1..Len(validation_issues[i].items) :
                           a # b => validation_issues[i].items[a]
                                       # validation_issues[i].items[b]

\* a run over three or more keywords returned one "unused" issue that lists
\* two keywords, after issues of the restaurant pass
C28_Witness ==
    /\ FirstReturn /\ seo_check
    /\ Cardinality(Keywords(feed)) >= 3
    /\ \E i, j \in 1..Len(validation_issues) :
          /\ i < j
          /\ RuleSet(validation_issues[i].rule) # "seo"
          /\ validation_issues[j].rule = "seo_unused_keywords"
          /\ Len(validation_issues[j].items) = 2

\* a run returned both SEO issues, the last two of its list
C28_WitnessBoth ==
    /\ FirstReturn /\ seo_check /\ Len(validation_issues) > 2
    /\ validation_issues[Len(validation_issues) - 1].rule = "seo_unused_keywords"
    /\ validation_issues[Len(validation_issues)].rule = "seo_low_use_keywords"

(***************************************************************************)
(* marketing_generator.py: create_marketing_templates adds marketing       *)
(* fields to the restaurants and dishes of a basic feed, appends three     *)
(* bundles per restaurant and saves the result.                            *)
(***************************************************************************)

\* the largest number of dishes of a basic feed
MaxDishes == 3

\* lines 31-69: NARRATIVE_TEMPLATES, field by field in the order of the dict
NARRATIVE_TEMPLATES ==
    << <<"chef_highlight",
          <<"A"," ","{","d","i","s","h","_","a","d","j","e","c","t","i","v",
            "e","}"," ","{","d","i","s","h","_","n","a","m","e","}"," ","p",
            "r","e","p","a","r","e","d"," ","b","y"," ","C","h","e","f"," ",
            "{","c","h","e","f","_","n","a","m","e","}",","," ","f","e","a",
            "t","u","r","i","n","g"," ","{","k","e","y","_","i","n","g","r",
            "e","d","i","e","n","t","}",".">>>>,
       <<"chef_story",
          <<"\n"," "," "," "," "," "," "," "," ","D","u","r","i","n","g",
            " ","{","c","h","e","f","_","n","a","m","e","}","'","s"," ","t",
            "r","a","v","e","l","s"," ","t","o"," ","{","l","o","c","a","t",
            "i","o","n","}",","," ","{","p","r","o","n","o","u","n","}"," ",
            "d","i","s","c","o","v","e","r","e","d"," ","t","h","e"," ","i",
            "n","s","p","i","r","a","t","i","o","n"," ","f","o","r"," ","o",
            "u","r"," ","{","d","i","s","h","_","n","a","m","e","}",".",
            "\n"," "," "," "," "," "," "," "," ","T","h","i","s"," ","d",
            "i","s","h"," ","c","o","m","b","i","n","e","s"," ","t","r","a",
            "d","i","t","i","o","n","a","l"," ","t","e","c","h","n","i","q",
            "u","e","s"," ","w","i","t","h"," ","{","c","h","e","f","_","n",
            "a","m","e","}","'","s"," ","u","n","i","q","u","e"," ","a","p",
            "p","r","o","a","c","h"," ","t","o"," ","{","c","u","i","s","i",
            "n","e","_","t","y","p","e","}"," ","c","o","o","k","i","n","g",
            ".","\n"," "," "," "," "," "," "," "," ","E","a","c","h"," ",
            "{","d","i","s","h","_","n","a","m","e","}"," ","i","s"," ","p",
            "r","e","p","a","r","e","d"," ","w","i","t","h"," ","m","e","t",
            "i","c","u","l","o","u","s"," ","a","t","t","e","n","t","i","o",
            "n"," ","t","o"," ","d","e","t","a","i","l",","," ","e","n","s",
            "u","r","i","n","g"," ","a"," ","m","e","m","o","r","a","b","l",
            "e"," ","d","i","n","i","n","g"," ","e","x","p","e","r","i","e",
            "n","c","e",".","\n"," "," "," "," ">>>>,
       <<"chef_anecdote",
          <<"\n"," "," "," "," "," "," "," "," ","C","h","e","f"," ","{",
            "c","h","e","f","_","n","a","m","e","}"," ","r","e","c","a","l",
            "l","s",":"," ","\"","T","h","e"," ","f","i","r","s","t"," ",
            "t","i","m","e"," ","I"," ","m","a","d","e"," ","{","d","i","s",
            "h","_","n","a","m","e","}"," ","w","a","s"," ","d","u","r","i",
            "n","g"," ","{","e","v","e","n","t","}","."," ","\n"," "," ",
            " "," "," "," "," "," ","I"," ","w","a","s"," ","s","t","r","u",
            "c","k"," ","b","y"," ","h","o","w"," ","t","h","e"," ","{","k",
            "e","y","_","i","n","g","r","e","d","i","e","n","t","}"," ","c",
            "r","e","a","t","e","d"," ","s","u","c","h"," ","a"," ","p","r",
            "o","f","o","u","n","d"," ","f","l","a","v","o","r"," ","w","h",
            "e","n"," ","c","o","m","b","i","n","e","d"," ","w","i","t","h",
            " ","{","s","e","c","o","n","d","a","r","y","_","i","n","g","r",
            "e","d","i","e","n","t","}","."," ","\n"," "," "," "," "," ",
            " "," "," ","I","t","'","s"," ","b","e","c","o","m","e"," ","o",
            "n","e"," ","o","f"," ","m","y"," ","f","a","v","o","r","i","t",
            "e"," ","d","i","s","h","e","s"," ","t","o"," ","p","r","e","p",
            "a","r","e"," ","f","o","r"," ","o","u","r"," ","g","u","e","s",
            "t","s",".","\"","\n"," "," "," "," ">>>>,
       <<"culinary_philosophy",
          <<"\n"," "," "," "," "," "," "," "," ","A","t"," ","{","r","e",
            "s","t","a","u","r","a","n","t","_","n","a","m","e","}",","," ",
            "w","e"," ","b","e","l","i","e","v","e"," ","t","h","a","t"," ",
            "e","x","c","e","p","t","i","o","n","a","l"," ","f","o","o","d",
            " ","s","t","a","r","t","s"," ","w","i","t","h"," ","e","x","c",
            "e","p","t","i","o","n","a","l"," ","i","n","g","r","e","d","i",
            "e","n","t","s",".","\n"," "," "," "," "," "," "," "," ","O",
            "u","r"," ","{","d","i","s","h","_","n","a","m","e","}"," ","e",
            "m","b","o","d","i","e","s"," ","o","u","r"," ","p","h","i","l",
            "o","s","o","p","h","y"," ","o","f"," ","{","p","h","i","l","o",
            "s","o","p","h","y","_","p","o","i","n","t","}",".","\n"," ",
            " "," "," "," "," "," "," ","W","e","'","r","e"," ","c","o","m",
            "m","i","t","t","e","d"," ","t","o"," ","{","c","o","m","m","i",
            "t","m","e","n","t","_","p","o","i","n","t","}"," ","w","h","i",
            "l","e"," ","d","e","l","i","v","e","r","i","n","g"," ","u","n",
            "f","o","r","g","e","t","t","a","b","l","e"," ","f","l","a","v",
            "o","r","s"," ","i","n"," ","e","v","e","r","y"," ","d","i","s",
            "h",".","\n"," "," "," "," ">>>>,
       <<"seasonal_story",
          <<"\n"," "," "," "," "," "," "," "," ","{","s","e","a","s","o",
            "n","_","n","a","m","e","}"," ","b","r","i","n","g","s"," ","t",
            "h","e"," ","p","e","r","f","e","c","t"," ","c","o","n","d","i",
            "t","i","o","n","s"," ","f","o","r"," ","o","u","r"," ","{","d",
            "i","s","h","_","n","a","m","e","}",".","\n"," "," "," "," ",
            " "," "," "," ","T","h","e"," ","{","k","e","y","_","i","n","g",
            "r","e","d","i","e","n","t","}"," ","r","e","a","c","h","e","s",
            " ","i","t","s"," ","p","e","a","k"," ","d","u","r","i","n","g",
            " ","t","h","i","s"," ","t","i","m","e",","," ","h","a","r","v",
            "e","s","t","e","d"," ","f","r","o","m"," ","{","f","a","r","m",
            "_","n","a","m","e","}"," ","j","u","s","t"," ","{","f","a","r",
            "m","_","d","i","s","t","a","n","c","e","}"," ","m","i","l","e",
            "s"," ","a","w","a","y",".","\n"," "," "," "," "," "," "," ",
            " ","W","e"," ","p","r","e","p","a","r","e"," ","t","h","i","s",
            " ","s","e","a","s","o","n","a","l"," ","f","a","v","o","r","i",
            "t","e"," ","u","s","i","n","g"," ","t","r","a","d","i","t","i",
            "o","n","a","l"," ","{","m","e","t","h","o","d","}"," ","t","e",
            "c","h","n","i","q","u","e","s"," ","t","o"," ","h","i","g","h",
            "l","i","g","h","t"," ","i","t","s"," ","n","a","t","u","r","a",
            "l"," ","{","q","u","a","l","i","t","y","}",".","\n"," "," ",
            " "," ">>>>,
       <<"cultural_context",
          <<"\n"," "," "," "," "," "," "," "," ","T","h","e"," ","{","d",
            "i","s","h","_","n","a","m","e","}"," ","h","a","s"," ","d","e",
            "e","p"," ","r","o","o","t","s"," ","i","n"," ","{","c","u","l",
            "t","u","r","e","}"," ","c","u","i","s","i","n","e",","," ","w",
            "h","e","r","e"," ","i","t"," ","h","a","s"," ","b","e","e","n",
            " ","e","n","j","o","y","e","d"," ","f","o","r"," ","g","e","n",
            "e","r","a","t","i","o","n","s",".","\n"," "," "," "," "," ",
            " "," "," ","T","r","a","d","i","t","i","o","n","a","l","l","y",
            " ","s","e","r","v","e","d"," ","d","u","r","i","n","g"," ","{",
            "o","c","c","a","s","i","o","n","}",","," ","t","h","i","s"," ",
            "d","i","s","h"," ","r","e","p","r","e","s","e","n","t","s"," ",
            "{","c","u","l","t","u","r","a","l","_","s","i","g","n","i","f",
            "i","c","a","n","c","e","}",".","\n"," "," "," "," "," "," ",
            " "," ","O","u","r"," ","v","e","r","s","i","o","n"," ","h","o",
            "n","o","r","s"," ","t","h","e","s","e"," ","t","r","a","d","i",
            "t","i","o","n","s"," ","w","h","i","l","e"," ","a","d","d","i",
            "n","g"," ","s","u","b","t","l","e"," ","c","o","n","t","e","m",
            "p","o","r","a","r","y"," ","e","l","e","m","e","n","t","s",".",
            "\n"," "," "," "," ">>>>,
       <<"ingredient_story",
          <<"\n"," "," "," "," "," "," "," "," ","O","u","r"," ","{","k",
            "e","y","_","i","n","g","r","e","d","i","e","n","t","}"," ","c",
            "o","m","e","s"," ","d","i","r","e","c","t","l","y"," ","f","r",
            "o","m"," ","{","s","u","p","p","l","i","e","r","_","n","a","m",
            "e","}"," ","i","n"," ","{","s","u","p","p","l","i","e","r","_",
            "l","o","c","a","t","i","o","n","}",".","\n"," "," "," "," ",
            " "," "," "," ","T","h","e"," ","{","s","u","p","p","l","i","e",
            "r","_","n","a","m","e","}"," ","f","a","m","i","l","y"," ","h",
            "a","s"," ","b","e","e","n"," ","g","r","o","w","i","n","g"," ",
            "{","k","e","y","_","i","n","g","r","e","d","i","e","n","t","}",
            " ","f","o","r"," ","{","y","e","a","r","s","}"," ","y","e","a",
            "r","s"," ","u","s","i","n","g"," ","{","f","a","r","m","i","n",
            "g","_","m","e","t","h","o","d","}",".","\n"," "," "," "," ",
            " "," "," "," ","T","h","e","i","r"," ","c","o","m","m","i","t",
            "m","e","n","t"," ","t","o"," ","{","c","e","r","t","i","f","i",
            "c","a","t","i","o","n","}"," ","p","r","a","c","t","i","c","e",
            "s"," ","e","n","s","u","r","e","s"," ","t","h","a","t"," ","o",
            "u","r"," ","{","d","i","s","h","_","n","a","m","e","}"," ","f",
            "e","a","t","u","r","e","s"," ","o","n","l","y"," ","t","h","e",
            " ","f","i","n","e","s","t"," ","i","n","g","r","e","d","i","e",
            "n","t","s",".","\n"," "," "," "," ">>>> >>

\* lines 72-118
MARKETING_EXTENSION_TEMPLATE ==
    Dict(<<
        <<"loyalty_program", Dict(<<
            <<"program_name", Str(<<"{","r","e","s","t","a","u","r","a","n","t","_","n","a",
                  "m","e","}"," ","R","e","w","a","r","d","s">>)>>,
            <<"tiers", List(<<
                Dict(<<
                    <<"tier_name", Str(<<"S","i","l","v","e","r">>)>>,
                    <<"benefits", Str(<<"1","0","%"," ","o","f","f"," ","y","o","u","r",
                          " ","b","i","l","l">>)>> >>),
                Dict(<<
                    <<"tier_name", Str(<<"G","o","l","d">>)>>,
                    <<"benefits", Str(<<"1","5","%"," ","o","f","f"," ","y","o","u","r",
                          " ","b","i","l","l"," ","+"," ","c","o","m","p",
                          "l","i","m","e","n","t","a","r","y"," ","d","e",
                          "s","s","e","r","t">>)>> >>),
                Dict(<<
                    <<"tier_name", Str(<<"P","l","a","t","i","n","u","m">>)>>,
                    <<"benefits", Str(<<"2","0","%"," ","o","f","f"," ","y","o","u","r",
                          " ","b","i","l","l"," ","+"," ","p","r","i","o",
                          "r","i","t","y"," ","r","e","s","e","r","v","a",
                          "t","i","o","n","s"," ","+"," ","c","h","e","f",
                          "'","s"," ","s","u","r","p","r","i","s","e">>)>> >>) >>)>>,
            <<"promo_blurb", Str(<<"J","o","i","n"," ","o","u","r"," ","{","r","e","s","t",
                  "a","u","r","a","n","t","_","n","a","m","e","}"," ","R",
                  "e","w","a","r","d","s"," ","p","r","o","g","r","a","m",
                  " ","a","n","d"," ","e","n","j","o","y"," ","e","x","c",
                  "l","u","s","i","v","e"," ","b","e","n","e","f","i","t",
                  "s"," ","e","v","e","r","y"," ","t","i","m","e"," ","y",
                  "o","u"," ","d","i","n","e"," ","w","i","t","h"," ","u",
                  "s","!">>)>> >>)>>,
        <<"promotional_offers", List(<<
            Dict(<<
                <<"offer_name", Str(<<"H","a","p","p","y"," ","H","o","u","r">>)>>,
                <<"details", Str(<<"H","a","l","f","-","p","r","i","c","e"," ","a","p",
                      "p","e","t","i","z","e","r","s"," ","a","n","d"," ",
                      "d","r","i","n","k"," ","s","p","e","c","i","a","l",
                      "s",","," ","M","o","n","d","a","y","-","F","r","i",
                      "d","a","y",","," ","4","-","6","p","m">>)>>,
                <<"start_time", Num(0)>>,
                <<"end_time", Num(0)>>,
                <<"marketing_copy", Str(<<"U","n","w","i","n","d"," ","a","f","t","e","r"," ",
                      "w","o","r","k"," ","w","i","t","h"," ","f","r","i",
                      "e","n","d","s"," ","a","n","d"," ","e","n","j","o",
                      "y"," ","o","u","r"," ","l","e","g","e","n","d","a",
                      "r","y"," ","H","a","p","p","y"," ","H","o","u","r",
                      " ","s","p","e","c","i","a","l","s","!">>)>> >>),
            Dict(<<
                <<"offer_name", Str(<<"D","a","t","e"," ","N","i","g","h","t"," ","S","p",
                      "e","c","i","a","l">>)>>,
                <<"details", Str(<<"T","h","r","e","e","-","c","o","u","r","s","e"," ",
                      "d","i","n","n","e","r"," ","f","o","r"," ","t","w",
                      "o"," ","w","i","t","h"," ","a"," ","b","o","t","t",
                      "l","e"," ","o","f"," ","h","o","u","s","e"," ","w",
                      "i","n","e",","," ","$","9","9">>)>>,
                <<"start_time", Num(0)>>,
                <<"end_time", Num(0)>>,
                <<"marketing_copy", Str(<<"M","a","k","e"," ","i","t"," ","a"," ","n","i","g",
                      "h","t"," ","t","o"," ","r","e","m","e","m","b","e",
                      "r"," ","w","i","t","h"," ","o","u","r"," ","r","o",
                      "m","a","n","t","i","c"," ","D","a","t","e"," ","N",
                      "i","g","h","t"," ","S","p","e","c","i","a","l","!">>)>> >>) >>)>>,
        <<"social_media_strategy", Dict(<<
            <<"platforms", List(<<
                Str(<<"I","n","s","t","a","g","r","a","m">>),
                Str(<<"F","a","c","e","b","o","o","k">>),
                Str(<<"T","w","i","t","t","e","r">>) >>)>>,
            <<"hashtags", List(<<
                Str(<<"#","{","r","e","s","t","a","u","r","a","n","t","_",
                      "n","a","m","e","_","n","o","_","s","p","a","c","e",
                      "s","}">>),
                Str(<<"#","L","o","c","a","l","F","o","o","d">>),
                Str(<<"#","F","a","r","m","T","o","T","a","b","l","e">>) >>)>>,
            <<"posting_schedule", Str(<<"3","x"," ","w","e","e","k","l","y">>)>>,
            <<"social_media_blurb", Str(<<"F","o","l","l","o","w"," ","u","s"," ","o","n"," ","s",
                  "o","c","i","a","l"," ","m","e","d","i","a"," ","f","o",
                  "r"," ","b","e","h","i","n","d","-","t","h","e","-","s",
                  "c","e","n","e","s"," ","l","o","o","k","s"," ","a","t",
                  " ","o","u","r"," ","k","i","t","c","h","e","n",","," ",
                  "c","h","e","f"," ","s","p","e","c","i","a","l","s",",",
                  " ","a","n","d"," ","e","x","c","l","u","s","i","v","e",
                  " ","o","f","f","e","r","s"," ","o","n","l","y"," ","a",
                  "v","a","i","l","a","b","l","e"," ","t","o"," ","o","u",
                  "r"," ","f","o","l","l","o","w","e","r","s","!">>)>> >>)>>,
        <<"website_cta", Dict(<<
            <<"button_text", Str(<<"R","e","s","e","r","v","e"," ","N","o","w">>)>>,
            <<"target_url", Str(<<"h","t","t","p","s",":","/","/","w","w","w",".","{","r",
                  "e","s","t","a","u","r","a","n","t","_","d","o","m","a",
                  "i","n","}","/","r","e","s","e","r","v","a","t","i","o",
                  "n","s">>)>>,
            <<"cta_copy", Str(<<"S","e","c","u","r","e"," ","y","o","u","r"," ","t","a",
                  "b","l","e"," ","t","o","d","a","y"," ","f","o","r"," ",
                  "a","n"," ","u","n","f","o","r","g","e","t","t","a","b",
                  "l","e"," ","d","i","n","i","n","g"," ","e","x","p","e",
                  "r","i","e","n","c","e","!">>)>> >>)>> >>)

\* lines 121-129
BUNDLE_TEMPLATE ==
    Dict(<<
        <<"id", Str(<<"{","r","e","s","t","a","u","r","a","n","t","_","i","d","}",
              "_","{","b","u","n","d","l","e","_","n","a","m","e","}">>)>>,
        <<"restaurant_id", Str(<<"{","r","e","s","t","a","u","r","a","n","t","_","i","d","}">>)>>,
        <<"bundle_name", Str(<<"{","b","u","n","d","l","e","_","n","a","m","e","}">>)>>,
        <<"included_items", List(<<>>)>>,
        <<"price", Num(0)>>,
        <<"currency", Str(<<"U","S","D">>)>>,
        <<"bundle_marketing_copy", Str(<<"E","x","p","e","r","i","e","n","c","e"," ","t","h","e"," ",
              "b","e","s","t"," ","o","f"," ","{","r","e","s","t","a","u",
              "r","a","n","t","_","n","a","m","e","}"," ","w","i","t","h",
              " ","o","u","r"," ","{","b","u","n","d","l","e","_","n","a",
              "m","e","}","."," ","A"," ","p","e","r","f","e","c","t"," ",
              "c","o","m","b","i","n","a","t","i","o","n"," ","o","f"," ",
              "o","u","r"," ","c","h","e","f","'","s"," ","f","a","v","o",
              "r","i","t","e"," ","c","r","e","a","t","i","o","n","s"," ",
              "a","t"," ","a"," ","s","p","e","c","i","a","l"," ","p","r",
              "i","c","e","!">>)>> >>)

\* d[key] = value
Put(d, k, value) ==
    IF Has(d, k)
    THEN Dict([i \in 1..Len(d.v) |-> IF d.v[i][1] = k THEN <<k, value>> ELSE d.v[i]])
    ELSE Dict(Append(d.v, <<k, value>>))

RECURSIVE Update(_, _)
\* d.update(other)
Update(d, other) ==
    IF other.v = <<>> THEN d
    ELSE Update(Put(d, other.v[1][1], other.v[1][2]), Dict(Tail(other.v)))

\* the least number of a non-empty set of numbers
Least(S) == CHOOSE k \in S : \A j \in S : k <= j

\* template_vars[name]
Var(template_vars, name) ==
    template_vars[CHOOSE i \in 1..Len(template_vars) : template_vars[i][1] = name][2]

RECURSIVE FormatFrom(_, _, _)
\* s.format(**template_vars) from position i on: each {name} is replaced by
\* the text of template_vars[name]; the templates of the module hold no
\* other braces
FormatFrom(s, i, template_vars) ==
    LET opening == {k \in i..Len(s) : s[k] = "{"} IN
    IF opening = {} THEN SubSeq(s, i, Len(s))
    ELSE LET open == Least(opening)
             close == Least({k \in open..Len(s) : s[k] = "}"})
         IN SubSeq(s, i, open - 1)
            \o Var(template_vars, SubSeq(s, open + 1, close - 1))
            \o FormatFrom(s, close + 1, template_vars)

StrFormat(s, template_vars) == FormatFrom(s, 1, template_vars)

\* str.replace(" ", "")
RemoveSpaces(s) == SelectSeq(s, LAMBDA c : c # " ")

RECURSIVE JoinLines(_)
\* " ".join(lines)
JoinLines(lines) ==
    IF lines = <<>> THEN <<>>
    ELSE IF Len(lines) = 1 THEN lines[1]
    ELSE lines[1] \o <<" ">> \o JoinLines(Tail(lines))

\* lines 159-163: the stripped non-empty lines of the text, joined by spaces
clean_format_string(text) ==
    LET lines == Runs(text, {"\n"}, 1, Len(text))
        stripped == [i \in 1..Len(lines) |-> Strip(lines[i], Whitespace)]
    IN JoinLines(SelectSeq(stripped, LAMBDA line : line # <<>>))

\* lines 166-174, with the default languages ["en"]
create_translated_string(text) ==
    Dict(<< <<"translations", Dict(<< <<"en", Str(text)>> >>)>> >>)

\* lines 183-209: template_vars of generate_dish_templates, as texts
DishTemplateVars(dish_name, restaurant_name) ==
    << <<<<"d","i","s","h","_","n","a","m","e">>, Format(dish_name)>>,
       <<<<"d","i","s","h","_","a","d","j","e","c","t","i","v","e">>, <<"e","x","q","u","i","s","i","t","e">>>>,
       <<<<"r","e","s","t","a","u","r","a","n","t","_","n","a","m","e">>, Format(restaurant_name)>>,
       <<<<"c","h","e","f","_","n","a","m","e">>, <<"A","l","e","x">>>>,
       <<<<"p","r","o","n","o","u","n">>, <<"t","h","e","y">>>>,
       <<<<"k","e","y","_","i","n","g","r","e","d","i","e","n","t">>,
         <<"l","o","c","a","l","l","y","-","s","o","u","r","c","e","d"," ",
          "i","n","g","r","e","d","i","e","n","t","s">>>>,
       <<<<"s","e","c","o","n","d","a","r","y","_","i","n","g","r","e","d",
          "i","e","n","t">>,
         <<"s","e","a","s","o","n","a","l"," ","h","e","r","b","s">>>>,
       <<<<"l","o","c","a","t","i","o","n">>, <<"S","o","u","t","h","e","r","n"," ","F","r","a","n","c","e">>>>,
       <<<<"c","u","i","s","i","n","e","_","t","y","p","e">>, <<"M","e","d","i","t","e","r","r","a","n","e","a","n">>>>,
       <<<<"e","v","e","n","t">>, <<"a"," ","s","u","m","m","e","r"," ","f","e","s","t","i","v","a",
          "l">>>>,
       <<<<"p","h","i","l","o","s","o","p","h","y","_","p","o","i","n","t">>,
         <<"r","e","s","p","e","c","t","i","n","g"," ","i","n","g","r","e",
          "d","i","e","n","t","s"," ","a","n","d"," ","t","r","a","d","i",
          "t","i","o","n","s">>>>,
       <<<<"c","o","m","m","i","t","m","e","n","t","_","p","o","i","n","t">>,
         <<"s","u","s","t","a","i","n","a","b","i","l","i","t","y"," ","a",
          "n","d"," ","s","u","p","p","o","r","t","i","n","g"," ","l","o",
          "c","a","l"," ","f","a","r","m","e","r","s">>>>,
       <<<<"s","e","a","s","o","n","_","n","a","m","e">>, <<"S","u","m","m","e","r">>>>,
       <<<<"f","a","r","m","_","n","a","m","e">>, <<"G","r","e","e","n"," ","V","a","l","l","e","y"," ","F","a","r",
          "m">>>>,
       <<<<"f","a","r","m","_","d","i","s","t","a","n","c","e">>, <<"1","5">>>>,
       <<<<"m","e","t","h","o","d">>, <<"s","l","o","w","-","c","o","o","k","i","n","g">>>>,
       <<<<"q","u","a","l","i","t","y">>, <<"f","r","e","s","h","n","e","s","s">>>>,
       <<<<"c","u","l","t","u","r","e">>, <<"M","e","d","i","t","e","r","r","a","n","e","a","n">>>>,
       <<<<"o","c","c","a","s","i","o","n">>, <<"h","a","r","v","e","s","t"," ","c","e","l","e","b","r","a","t",
          "i","o","n","s">>>>,
       <<<<"c","u","l","t","u","r","a","l","_","s","i","g","n","i","f","i",
          "c","a","n","c","e">>,
         <<"c","o","m","m","u","n","i","t","y"," ","a","n","d"," ","s","h",
          "a","r","i","n","g">>>>,
       <<<<"s","u","p","p","l","i","e","r","_","n","a","m","e">>, <<"G","r","e","e","n"," ","V","a","l","l","e","y"," ","F","a","r",
          "m">>>>,
       <<<<"s","u","p","p","l","i","e","r","_","l","o","c","a","t","i","o",
          "n">>,
         <<"t","h","e"," ","l","o","c","a","l"," ","c","o","u","n","t","r",
          "y","s","i","d","e">>>>,
       <<<<"y","e","a","r","s">>, <<"t","h","r","e","e"," ","g","e","n","e","r","a","t","i","o","n",
          "s">>>>,
       <<<<"f","a","r","m","i","n","g","_","m","e","t","h","o","d">>, <<"t","r","a","d","i","t","i","o","n","a","l"," ","o","r","g","a",
          "n","i","c">>>>,
       <<<<"c","e","r","t","i","f","i","c","a","t","i","o","n">>, <<"s","u","s","t","a","i","n","a","b","l","e">>>> >>

\* lines 212-219: one translated string per template, formatted
NarrativeTexts(template_vars) ==
    [i \in 1..Len(NARRATIVE_TEMPLATES) |->
        <<NARRATIVE_TEMPLATES[i][1],
          create_translated_string(
              StrFormat(clean_format_string(NARRATIVE_TEMPLATES[i][2]),
                        template_vars))>>]

\* lines 222-233; latitude 38.291859 and longitude -122.458036 are kept as
\* their whole degrees, the numbers of the model being integers: the
\* validator only compares them with -90, 90, -180 and 180
GeneratedSupplierLocation ==
    Dict(<< <<"detailed", Dict(<<
                <<"street_address", Str(<<"1","2","3"," ","F","a","r","m"," ","R","o","a","d">>)>>,
                <<"locality", Str(<<"G","r","e","e","n"," ","V","a","l","l","e","y">>)>>,
                <<"state", Str(<<"C","A">>)>>,
                <<"country", Str(<<"U","S","A">>)>>,
                <<"zipcode", Str(<<"9","5","4","7","6">>)>> >>)>>,
            <<"compact", Str(<<"G","r","e","e","n"," ","V","a","l","l","e","y",","," ","C","A">>)>>,
            <<"latitude", Num(38)>>,
            <<"longitude", Num(0 - 122)>> >>)

\* lines 241-252
GeneratedUpgradeOptions ==
    List(<< Dict(<< <<"name", Str(<<"P","r","e","m","i","u","m"," ","i","n","g","r","e","d","i","e",
          "n","t","s">>)>>,
                    <<"description",
                      Str(<<"U","p","g","r","a","d","e"," ","t","o"," ","p","r","e","m","i",
          "u","m"," ","o","r","g","a","n","i","c"," ","i","n","g","r","e",
          "d","i","e","n","t","s">>)>>,
                    <<"price_adjustment", Num(500)>> >>),
            Dict(<< <<"name", Str(<<"E","x","t","r","a"," ","p","o","r","t","i","o","n">>)>>,
                    <<"description", Str(<<"5","0","%"," ","l","a","r","g","e","r"," ","p","o","r","t","i",
          "o","n">>)>>,
                    <<"price_adjustment", Num(700)>> >>) >>)

\* lines 177-264: the fields generate_dish_templates returns, in the order
\* it sets them; suggested_prompt_template is assigned unformatted
generate_dish_templates(dish, restaurant) ==
    LET dish_name == GetOr(dish, "name", Str(<<"S","i","g","n","a","t","u","r","e"," ","D","i","s","h">>))
        restaurant_name == GetOr(restaurant, "name", Str(<<"O","u","r"," ","R","e","s","t","a","u","r","a","n","t">>))
    IN Dict(NarrativeTexts(DishTemplateVars(dish_name, restaurant_name))
            \o << <<"supplier_location", GeneratedSupplierLocation>>,
                  <<"supplier_certification", Str(<<"U","S","D","A"," ","O","r","g","a","n","i","c">>)>>,
                  <<"farm_distance", Num(15)>>,
                  <<"sustainability_impact",
                    Str(<<"R","e","d","u","c","e","s"," ","c","a","r","b",
                          "o","n"," ","f","o","o","t","p","r","i","n","t",
                          " ","b","y"," ","u","s","i","n","g"," ","l","o",
                          "c","a","l"," ","i","n","g","r","e","d","i","e",
                          "n","t","s"," ","a","n","d"," ","s","u","s","t",
                          "a","i","n","a","b","l","e"," ","f","a","r","m",
                          "i","n","g"," ","p","r","a","c","t","i","c","e",
                          "s",".">>)>>,
                  <<"upgrade_options", GeneratedUpgradeOptions>>,
                  <<"key_message_points",
                    List(<< Str(<<"F","a","r","m","-","t","o","-","t","a","b",
                              "l","e"," ","f","r","e","s","h","n","e","s",
                              "s">>),
                            Str(<<"C","h","e","f","'","s"," ","s","i","g","n",
                              "a","t","u","r","e"," ","c","r","e","a","t",
                              "i","o","n">>),
                            Str(<<"S","e","a","s","o","n","a","l"," ","i","n",
                              "g","r","e","d","i","e","n","t","s">>) >>)>>,
                  <<"suggested_prompt_template",
                    Str(<<"G","e","n","e","r","a","t","e"," ","a"," ","{",
                          "l","e","n","g","t","h","}"," ","d","e","s","c",
                          "r","i","p","t","i","o","n"," ","f","o","r"," ",
                          "{","d","i","s","h","_","n","a","m","e","}",",",
                          " ","h","i","g","h","l","i","g","h","t","i","n",
                          "g"," ","t","h","e"," ","u","s","e"," ","o","f",
                          " ","{","k","e","y","_","i","n","g","r","e","d",
                          "i","e","n","t","}"," ","a","n","d"," ","i","t",
                          "s"," ","{","q","u","a","l","i","t","y","}",".">>)>> >>)

\* lines 296-298: the offers with the promotion times set
WithTimes(offers, current_time, future_time) ==
    List([k \in 1..Len(offers.v) |->
             Put(Put(offers.v[k], "start_time", Num(current_time)),
                 "end_time", Num(future_time))])

\* lines 267-324: current_time and future_time are the two readings of the
\* clock of lines 277-278
generate_restaurant_marketing(restaurant, current_time, future_time) ==
    LET restaurant_name == GetOr(restaurant, "name", Str(<<"O","u","r"," ","R","e","s","t","a","u","r","a","n","t">>))
        restaurant_id == GetOr(restaurant, "id", Str(<<"r","e","s","t","a","u","r","a","n","t","1","2","3">>))
        restaurant_name_no_spaces == RemoveSpaces(Format(restaurant_name))
        restaurant_domain == Lower(restaurant_name_no_spaces) \o <<".","c","o","m">>
        template_vars ==
            << <<<<"r","e","s","t","a","u","r","a","n","t","_","n","a","m","e">>, Format(restaurant_name)>>,
               <<<<"r","e","s","t","a","u","r","a","n","t","_","n","a","m",
                  "e","_","n","o","_","s","p","a","c","e","s">>,
                 restaurant_name_no_spaces>>,
               <<<<"r","e","s","t","a","u","r","a","n","t","_","d","o","m",
                  "a","i","n">>, restaurant_domain>>,
               <<<<"r","e","s","t","a","u","r","a","n","t","_","i","d">>, Format(restaurant_id)>> >>
        template == MARKETING_EXTENSION_TEMPLATE
        loyalty == Get(template, "loyalty_program")
        social == Get(template, "social_media_strategy")
        hashtags == Get(social, "hashtags").v
        cta == Get(template, "website_cta")
        marketing ==
            Put(Put(Put(Put(template,
                "loyalty_program",
                Put(Put(loyalty,
                        "program_name",
                        Str(StrFormat(Get(loyalty, "program_name").v, template_vars))),
                    "promo_blurb",
                    Str(StrFormat(Get(loyalty, "promo_blurb").v, template_vars)))),
                "promotional_offers",
                WithTimes(Get(template, "promotional_offers"),
                          current_time, future_time)),
                "social_media_strategy",
                Put(social, "hashtags",
                    List([k \in 1..Len(hashtags) |->
                             Str(StrFormat(hashtags[k].v, template_vars))]))),
                "website_cta",
                Put(cta, "target_url",
                    Str(StrFormat(Get(cta, "target_url").v, template_vars))))
    IN Dict(<< <<"marketing_extension", marketing>>,
               <<"key_message_points",
                 List(<< Str(<<"F","a","r","m","-","t","o","-","t","a","b","l",
                           "e"," ","d","i","n","i","n","g"," ","e","x","p",
                           "e","r","i","e","n","c","e">>),
                         Str(<<"S","u","p","p","o","r","t","i","n","g"," ","l",
                           "o","c","a","l"," ","f","a","r","m","e","r","s">>),
                         Str(<<"S","u","s","t","a","i","n","a","b","l","e"," ",
                           "p","r","a","c","t","i","c","e","s">>),
                         Str(<<"S","e","a","s","o","n","a","l"," ","m","e","n",
                           "u"," ","c","h","a","n","g","e","s">>) >>)>>,
               <<"suggested_prompt_template",
                 Str(<<"G","e","n","e","r","a","t","e"," ","a"," ","{","l",
                       "e","n","g","t","h","}"," ","d","e","s","c","r","i",
                       "p","t","i","o","n"," ","f","o","r"," ","{","r","e",
                       "s","t","a","u","r","a","n","t","_","n","a","m","e",
                       "}",","," ","e","m","p","h","a","s","i","z","i","n",
                       "g"," ","o","u","r"," ","{","k","e","y","_","m","e",
                       "s","s","a","g","e","_","p","o","i","n","t","s","}">>)>> >>)

\* dish in selected_dishes
In(dish, dishes) == \E k \in 1..Len(dishes) : dishes[k] = dish

\* lines 333-337: the first restaurant of the feed with the id, or None
FindRestaurant(f, restaurant_id) ==
    LET restaurants == Section(f, "restaurants")
        found == {k \in 1..Len(restaurants) :
                     GetOr(restaurants[k], "id", Null) = restaurant_id}
    IN IF found = {} THEN Null ELSE restaurants[Least(found)]

\* lines 344-347: the dishes of the feed with the restaurant_id, in order
DishesOf(f, restaurant_id) ==
    SelectSeq(Section(f, "dishes"),
              LAMBDA dish : GetOr(dish, "restaurant_id", Null) = restaurant_id)

\* line 355
DishTypes == <<<<"a","p","p","e","t","i","z","e","r">>, <<"m","a","i","n">>, <<"d","e","s","s","e","r","t">>>>

\* line 460
BundleNames == <<<<"C","h","e","f","'","s"," ","S","e","l","e","c","t","i",
                 "o","n">>,
                 <<"F","a","m","i","l","y"," ","F","e","a","s","t">>,
                 <<"D","a","t","e"," ","N","i","g","h","t"," ","S","p","e",
                 "c","i","a","l">>>>

RECURSIVE SelectByType(_, _, _)
\* lines 358-363: for each type, the first dish of the restaurant whose
\* lowered category holds the type and that is not selected yet
SelectByType(dish_types, dishes, selected) ==
    IF dish_types = <<>> THEN selected
    ELSE LET fits == {k \in 1..Len(dishes) :
                 /\ Contains(Lower(GetOr(dishes[k], "category", Str(<<>>)).v),
                             Head(dish_types))
                 /\ ~In(dishes[k], selected)}
         IN SelectByType(Tail(dish_types), dishes,
                IF fits = {} THEN selected
                ELSE Append(selected, dishes[Least(fits)]))

\* lines 367-370: one pass of the for loop in the body of the while loop
\* appends the first dish that is not selected, if there is one
SelectOneMore(dishes, selected) ==
    LET rest == {k \in 1..Len(dishes) : ~In(dishes[k], selected)} IN
    IF rest = {} THEN selected ELSE Append(selected, dishes[Least(rest)])

\* line 366: min(3, len(restaurant_dishes))
Wanted(dishes) == IF Len(dishes) < 3 THEN Len(dishes) ELSE 3

RECURSIVE TotalPrice(_)
\* line 373: the sum of the prices, 0 for a dish without one
TotalPrice(selected) ==
    IF selected = <<>> THEN 0
    ELSE GetOr(Head(selected), "price", Num(0)).v + TotalPrice(Tail(selected))

\* line 374: int(total_price * 0.85); for the prices of the feeds of the
\* model the floating-point product truncates to the same integer
Discounted(total_price) == (total_price * 85) \div 100

\* lines 377-391: the bundle made of the template
GeneratedBundle(restaurant, restaurant_id, bundle_name, selected) ==
    LET template_vars ==
            << <<<<"r","e","s","t","a","u","r","a","n","t","_","i","d">>, Format(restaurant_id)>>,
               <<<<"b","u","n","d","l","e","_","n","a","m","e">>, bundle_name>>,
               <<<<"r","e","s","t","a","u","r","a","n","t","_","n","a","m","e">>,
                 Format(GetOr(restaurant, "name", Str(<<"O","u","r"," ","R","e","s","t","a","u","r",
                                "a","n","t">>)))>> >>
    IN Put(Put(Put(Put(Put(Put(BUNDLE_TEMPLATE,
           "id", Str(StrFormat(Get(BUNDLE_TEMPLATE, "id").v, template_vars))),
           "restaurant_id", restaurant_id),
           "bundle_name", Str(bundle_name)),
           "included_items",
           List([k \in 1..Len(selected) |-> GetOr(selected[k], "id", Null)])),
           "price", Num(Discounted(TotalPrice(selected)))),
           "bundle_marketing_copy",
           Str(StrFormat(Get(BUNDLE_TEMPLATE, "bundle_marketing_copy").v,
                         template_vars)))

(***************************************************************************)
(* The basic feeds given to the generator.                                 *)
(***************************************************************************)
BasicRestaurant ==
    Dict(<< <<"id", Str(<<"r","1">>)>>,
            <<"name", Str(<<"P","h","o"," ","B","a","r">>)>> >>)

\* a restaurant without a name
UnnamedRestaurant == Dict(<< <<"id", Str(<<"r","2">>)>> >>)

BasicDish(id, restaurant_id, category, price) ==
    Dict(<< <<"id", Str(id)>>,
            <<"restaurant_id", Str(restaurant_id)>>,
            <<"category", Str(category)>>,
            <<"price", Num(price)>> >>)

\* a main course and a side of the first restaurant, a starter of the second
BasicDishPool ==
    { Put(BasicDish(<<"d","1">>, <<"r","1">>, <<"M","a","i","n"," ","C","o","u","r","s","e">>, 1000),
          "name", Str(Pho)),
      BasicDish(<<"d","2">>, <<"r","1">>, <<"S","i","d","e">>, 333),
      BasicDish(<<"d","3">>, <<"r","2">>, <<"A","p","p","e","t","i","z","e","r">>, 500) }

\* the restaurants section: absent, one restaurant, or both
BasicRestaurants ==
    {<<>>} \cup { << <<"restaurants", List(rs)>> >> :
                    rs \in {<<BasicRestaurant>>, <<UnnamedRestaurant>>,
                            <<BasicRestaurant, UnnamedRestaurant>>} }

\* a feed of version 1.0, or one without a header
BasicHeaders ==
    {<<>>, << <<"header", Dict(<< <<"version", Str(<<"1",".","0">>)>> >>)>> >>}

\* the file at input_file: missing, or a basic feed of at most MaxDishes
\* dishes, where a dish may be listed more than once
BasicFiles ==
    {[kind |-> "missing", doc |-> Null]}
    \cup {[kind |-> "json", doc |-> Dict(h \o rs \o ds)] :
            h \in BasicHeaders, rs \in BasicRestaurants,
            ds \in Sections("dishes", BasicDishPool, MaxDishes)}

\* line 277: the time of the run, in seconds
Now == 1700000000

\* line 278: timedelta(days=30), in seconds
ThirtyDays == 2592000

(***************************************************************************)
(* create_marketing_templates, lines 396-470, followed by the validation   *)
(* of the feed it saved, with both flags off.                              *)
(***************************************************************************)
valvars == <<content_quality, seo_check, pc, feed, idx, validation_issues,
             result, report, run, first_issues, mode, exit_code>>

GenInit ==
    /\ gpc = "start"
    /\ output_feed = Null
    /\ gidx = 0
    /\ bundle_idx = 0
    /\ restaurant_dishes = <<>>
    /\ selected_dishes = <<>>
    /\ mode = "marketing"
    /\ file = NoPath
    /\ exit_code = NoExit
    /\ content_quality = FALSE
    /\ seo_check = FALSE
    /\ pc = "load"
    /\ feed = Null
    /\ idx = 0
    /\ validation_issues = <<>>
    /\ result = "none"
    /\ report = NoReport
    /\ run = 1
    /\ first_issues = <<>>

\* the control point that follows the dish loop at its i-th iteration;
\* line 425: the loop runs when the feed has dishes and restaurants
GenGotoDishes(f, i) ==
    IF Has(f, "dishes") /\ Has(f, "restaurants") /\ i <= Len(Section(f, "dishes"))
    THEN <<"dishes", i>>
    ELSE <<"bundles", 0>>

\* the control point that follows the restaurant loop at its i-th iteration
GenGotoRestaurants(f, i) ==
    IF i <= Len(Section(f, "restaurants")) THEN <<"restaurants", i>>
    ELSE GenGotoDishes(f, 1)

\* the control point that follows the bundle_idx-th bundle of the gidx-th
\* restaurant, lines 455-466
GenGotoBundle(f, i, b) ==
    IF b <= Len(BundleNames) THEN <<"bundle", i, b>>
    ELSE IF i < Len(Section(f, "restaurants")) THEN <<"bundle", i + 1, 1>>
    ELSE <<"save", 0, 0>>

\* output_feed with its n-th object of the section replaced
WithEntity(f, key, n, entity) ==
    Put(f, key, List([k \in 1..Len(Section(f, key)) |->
                         IF k = n THEN entity ELSE Section(f, key)[k]]))

\* lines 398-410: a missing file or an empty feed returns False; the
\* assignment of line 410 raises KeyError for a feed without a header
GenStart ==
    /\ gpc = "start"
    /\ \E input_file \in BasicFiles :
          LET loaded == load_json_file(input_file) IN
          IF ~Truthy(loaded)
          THEN gpc' = "returned_false" /\ UNCHANGED <<output_feed, gidx>>
          ELSE IF ~Has(loaded, "header")
          THEN gpc' = "raised" /\ UNCHANGED <<output_feed, gidx>>
          ELSE /\ output_feed' =
                     Put(loaded, "header",
                         Put(Get(loaded, "header"), "version", Str(<<"1",".","1">>)))
               /\ gpc' = GenGotoRestaurants(loaded, 1)[1]
               /\ gidx' = GenGotoRestaurants(loaded, 1)[2]
    /\ UNCHANGED <<bundle_idx, restaurant_dishes, selected_dishes, file, valvars>>

\* lines 414-422, one iteration: the clock is read twice, and the second
\* reading may fall in the next second
GenRestaurant ==
    /\ gpc = "restaurants"
    /\ \E tick \in {0, 1} :
          LET restaurant == Section(output_feed, "restaurants")[gidx]
              marketing_fields ==
                  generate_restaurant_marketing(restaurant, Now,
                                                Now + tick + ThirtyDays)
          IN output_feed' = WithEntity(output_feed, "restaurants", gidx,
                                       Update(restaurant, marketing_fields))
    /\ gpc' = GenGotoRestaurants(output_feed, gidx + 1)[1]
    /\ gidx' = GenGotoRestaurants(output_feed, gidx + 1)[2]
    /\ UNCHANGED <<bundle_idx, restaurant_dishes, selected_dishes, file, valvars>>

\* lines 426-447, one iteration: a dish of no restaurant of the feed gets
\* the texts of a restaurant named Our Restaurant
GenDish ==
    /\ gpc = "dishes"
    /\ LET dish == Section(output_feed, "dishes")[gidx]
           found == FindRestaurant(output_feed, GetOr(dish, "restaurant_id", Null))
           restaurant == IF Truthy(found) THEN found
                         ELSE Dict(<< <<"name", Str(<<"O","u","r"," ","R","e","s","t","a","u","r",
                                "a","n","t">>)>> >>)
       IN output_feed' = WithEntity(output_feed, "dishes", gidx,
                             Update(dish, generate_dish_templates(dish, restaurant)))
    /\ gpc' = GenGotoDishes(output_feed, gidx + 1)[1]
    /\ gidx' = GenGotoDishes(output_feed, gidx + 1)[2]
    /\ UNCHANGED <<bundle_idx, restaurant_dishes, selected_dishes, file, valvars>>

\* lines 450-455: the feed gets an empty list of bundles if it has none
GenBundles ==
    /\ gpc = "bundles"
    /\ output_feed' = IF Has(output_feed, "bundles") THEN output_feed
                      ELSE Put(output_feed, "bundles", List(<<>>))
    /\ IF Section(output_feed, "restaurants") # <<>>
       THEN gpc' = "bundle" /\ gidx' = 1 /\ bundle_idx' = 1
       ELSE gpc' = "save" /\ gidx' = 0 /\ bundle_idx' = 0
    /\ UNCHANGED <<restaurant_dishes, selected_dishes, file, valvars>>

\* generate_bundle, lines 327-363: None without the restaurant or without
\* dishes; else the dishes selected by type
GenBundleBegin ==
    /\ gpc = "bundle"
    /\ LET restaurant_id ==
               GetOr(Section(output_feed, "restaurants")[gidx], "id", Null)
           dishes == DishesOf(output_feed, restaurant_id)
       IN IF ~Truthy(FindRestaurant(output_feed, restaurant_id)) \/ dishes = <<>>
          THEN /\ gpc' = GenGotoBundle(output_feed, gidx, bundle_idx + 1)[1]
               /\ gidx' = GenGotoBundle(output_feed, gidx, bundle_idx + 1)[2]
               /\ bundle_idx' = GenGotoBundle(output_feed, gidx, bundle_idx + 1)[3]
               /\ UNCHANGED <<restaurant_dishes, selected_dishes>>
          ELSE /\ gpc' = "select"
               /\ restaurant_dishes' = dishes
               /\ selected_dishes' = SelectByType(DishTypes, dishes, <<>>)
               /\ UNCHANGED <<gidx, bundle_idx>>
    /\ UNCHANGED <<output_feed, file, valvars>>

\* lines 366-370: one iteration of the while loop
GenSelectMore ==
    /\ gpc = "select"
    /\ Len(selected_dishes) < Wanted(restaurant_dishes)
    /\ selected_dishes' = SelectOneMore(restaurant_dishes, selected_dishes)
    /\ UNCHANGED <<gpc, output_feed, gidx, bundle_idx, restaurant_dishes, file,
                   valvars>>

\* lines 373-393 and 465-466: the while loop is left, the bundle is built
\* and appended to the bundles of the feed
GenBundleEnd ==
    /\ gpc = "select"
    /\ ~(Len(selected_dishes) < Wanted(restaurant_dishes))
    /\ LET restaurant_id ==
               GetOr(Section(output_feed, "restaurants")[gidx], "id", Null)
           bundle == GeneratedBundle(FindRestaurant(output_feed, restaurant_id),
                                     restaurant_id, BundleNames[bundle_idx],
                                     selected_dishes)
       IN output_feed' = Put(output_feed, "bundles",
                             List(Append(Section(output_feed, "bundles"), bundle)))
    /\ gpc' = GenGotoBundle(output_feed, gidx, bundle_idx + 1)[1]
    /\ gidx' = GenGotoBundle(output_feed, gidx, bundle_idx + 1)[2]
    /\ bundle_idx' = GenGotoBundle(output_feed, gidx, bundle_idx + 1)[3]
    /\ restaurant_dishes' = <<>>
    /\ selected_dishes' = <<>>
    /\ UNCHANGED <<file, valvars>>

\* lines 469-470 and 142-156: save_json_file writes the feed or fails; the
\* saved file is the one given to the validator
GenSave ==
    /\ gpc = "save"
    /\ \E saved \in BOOLEAN :
          IF saved
          THEN /\ gpc' = "returned_true"
               /\ file' = [kind |-> "json", doc |-> output_feed]
          ELSE /\ gpc' = "returned_false"
               /\ file' = file
    /\ UNCHANGED <<output_feed, gidx, bundle_idx, restaurant_dishes,
                   selected_dishes, valvars>>

GenNext ==
    \/ GenStart
    \/ GenRestaurant
    \/ GenDish
    \/ GenBundles
    \/ GenBundleBegin
    \/ GenSelectMore
    \/ GenBundleEnd
    \/ GenSave
    \/ Load
    \/ RestaurantStep
    \/ DishStep
    \/ BundleStep
    \/ SeoStep
    \/ Report

GenSpec == GenInit /\ [][GenNext]_vars

(***************************************************************************)
(* Claims about the generator.                                             *)
(***************************************************************************)

\* C29: generate_bundle terminates for every feed, lists with two equal dish
\* records included: whenever the while loop of lines 366-370 is entered
\* with fewer than min(3, number of the restaurant's dishes) dishes
\* selected, its body selects one more dish, so that the loop ends with
\* that many dishes selected and the function returns.
C29_SelectionLoopAdvances ==
    gpc = "select" /\ Len(selected_dishes) < Wanted(restaurant_dishes)
    => Len(SelectOneMore(restaurant_dishes, selected_dishes))
           = Len(selected_dishes) + 1

\* the feed has restaurants, and each has a dish with a positive price
EveryRestaurantHasPricedDish(f) ==
    /\ Section(f, "restaurants") # <<>>
    /\ \A r \in 1..Len(Section(f, "restaurants")) :
          \E d \in 1..Len(Section(f, "dishes")) :
             LET dish == Section(f, "dishes")[d] IN
             /\ GetOr(dish, "restaurant_id", Null)
                    = GetOr(Section(f, "restaurants")[r], "id", Null)
             /\ Has(dish, "price")
             /\ IsNumber(Get(dish, "price"))
             /\ Get(dish, "price").v > 0

\* C30: the feed create_marketing_templates saves for a basic feed whose
\* restaurants have at least one priced dish each passes
\* validate_marketing_fields with content_quality and seo_check disabled.
C30_GeneratedFeedPasses ==
    /\ gpc = "returned_true"
    /\ Returned
    /\ ~content_quality /\ ~seo_check
    /\ EveryRestaurantHasPricedDish(feed)
    => result = "True"

====
